---- MODULE Spec2Model ----
(***************************************************************************)
(* State-machine model of the asynchronous workflows of mfgcompliance-cai: *)
(*   - pollOperationUntilComplete        (services/api.services.tsx)       *)
(*   - handleUploadAndStartChat and the upload of one file with its        *)
(*     operation loop (components/ChatbotView.tsx, geminiService)          *)
(*   - ensureUserStore / handleUpload    (components/DocumentManager.tsx)  *)
(*   - LiveDemoView: the live session, its audio playback and its          *)
(*     transcript (unnamed/part_005)                                       *)
(*   - validateDocumentMetadata and the three upload forms                 *)
(*   - bulkDeleteDocuments          (services/documentManagementService)   *)
(*   - the chat of ChatbotView: handleSendMessage, handleEndChat           *)
(*   - the pure functions enrichDocumentMetadata, compareVersions,         *)
(*     hasNewerVersion, filterDocuments (sorting) and createBlob           *)
(* Each workflow has its own specification (SpecPoll, SpecUpload,          *)
(* SpecChat, SpecStore, SpecLive, SpecPlayback, SpecTranscript,            *)
(* SpecForms, SpecBulk); the variables of the other workflows stay idle    *)
(* in it. A pure function has a specification whose initial states draw    *)
(* its arguments and whose action applies it (SpecEnrich, SpecCompare,     *)
(* SpecNewer, SpecFilter, SpecPcm).                                        *)
(* An action is one run of the JavaScript event loop: from the resumption  *)
(* of an await (or a user event) to the next await.                        *)
(***************************************************************************)
EXTENDS Integers, Sequences, FiniteSets, TLC

null == "null"

\* ------------------------------------------------------------------ bounds
\* largest maxAttempts a caller passes to the poller
MaxAttemptsBound == 3
\* largest ordinary batch of files
MaxFiles == 3
\* one large batch, where the per-file progress share drops to one half
LargeBatch == 190

\* ------------------------------------------------------- backend payloads
Responses == {"resp1", "resp2"}
ErrorPayloads == {"err1", "err2"}
NetworkErrors == {"neterr"}
Intervals == {1, 3}

\* what GET /gemini/operations/:name can answer
OperationReplies ==
    [done : {FALSE}, error : {null}, response : {null}]
      \cup [done : {TRUE}, error : {null}, response : Responses]
      \cup [done : {TRUE}, error : ErrorPayloads, response : Responses \cup {null}]

VARIABLES
    \* pollOperationUntilComplete
    pollPc,         \* "idle" | "checking" | "waiting" | "returned" | "failed" | "timeout"
    maxAttempts,    \* parameter
    intervalMs,     \* parameter
    attempts,       \* local counter
    pollReplies,    \* replies of checkOperationStatus so far, in order
    checksIssued,   \* number of checkOperationStatus calls made
    checksInFlight, \* calls made and not yet answered
    waitsDone,      \* number of interval timers that have fired
    pollClock,      \* time spent in interval timers
    pollResult,     \* value the promise resolved with
    pollError       \* value the promise rejected with

VARIABLES
    \* ChatbotView
    status,             \* AppStatus
    files,              \* files.length; the files are 1..files
    aistudio,           \* whether window.aistudio exists
    uploadProgress,     \* the uploadProgress state, NoProgress for null
    activeRagStoreName, \* state, null until a chat starts
    upPc,               \* where handleUploadAndStartChat is suspended
    i,                  \* loop index of the for loop (0-based)
    ragStoreName,       \* the local holding createRagStore's result
    \* uploadToRagStore (one call at a time is made by the loop)
    upFnPc,             \* "none" | "request" | "delay" | "get"
    op,                 \* the operation the upload function holds
    \* history of the current batch
    issued,             \* upload calls made: <<[file, store]>>
    uploadsInFlight,    \* upload calls made and not yet settled
    lastUpload,         \* how the latest upload call ended
    failedAt,           \* 1-based index of the file whose upload threw, 0 if none
    handleErrorCalls,   \* calls of the handleError prop
    settled             \* how the handler's promise settled

VARIABLES
    \* DocumentManager and the backend's stores
    backendStores,  \* names of the stores the backend holds
    userStore,      \* the userStore state: null or the store's name
    loadPc,         \* per loadInitialData run: "idle" | "list" | "create" | "relist" | "docs"
    docUploadPc,    \* handleUpload: "idle" | "upload"
    docUploadName,  \* the store name the pending uploadDocument call was given
    managerError,   \* the error state of the page
    storeRequests,  \* requests made that name a store: [kind, name]
    returnedNames,  \* store names the backend has given in its answers
    loadAfterEnsure \* per run: had an ensureUserStore call completed when it started

VARIABLES
    \* LiveDemoView: component state and refs
    liveStatus,                 \* status: "idle" | "connecting" | "active" | "error"
    statusMessage,
    transcripts,                \* <<[speaker, text, isFinal]>>
    currentInputTranscription,  \* accumulator of the user's text
    currentOutputTranscription, \* accumulator of the model's text
    sessionPromiseRef,          \* refs: NoRef or the run that made the resource
    inputAudioContextRef,
    outputAudioContextRef,
    mediaStreamRef,
    scriptProcessorRef,
    nextStartTimeRef,
    sourcesRef,                 \* indexes in sources of the members of the set
    \* the environment of the component
    mounted,        \* whether the component is mounted
    startPc,        \* per handleStartDemo run: "unused" | "hasKey" | "selectKey" | "media" | "over"
    session,        \* per run, its channel: "none" | "connecting" | "open" | "errored" | "closed"
    created,        \* [kind][run]: whether the run has made the resource
    released,       \* [kind][run]: calls of stop / disconnect / close on it (2: two or more)
    sources,        \* every buffer source made: <<[start, duration, stops, ended]>>,
                    \* with its history: arrived, follows, cut, run
    clock,          \* currentTime of the output audio context
    \* history
    liveReported,   \* the message of the latest handleError call
    lastEnd,        \* what triggered the latest teardown since the latest user start
    teardowns       \* handleEndDemo calls in a row (2: two or more)

VARIABLES
    \* the upload forms: UploadModal (DocumentManager), ManagementView, VersionControlView
    modalPc,        \* UploadModal.handleSubmit: "idle" | "uploading"
    modalError,     \* the error state of UploadModal: the messages shown
    mgmtPc,         \* ManagementView.handleConfirmUpload: "idle" | "uploading"
    versionPc,      \* VersionControlView.handleUpload: "idle" | "uploading"
    lastSent,       \* the metadata of the latest upload request, <<>> before the first
    sentBy          \* the form that made it

VARIABLES
    \* bulkDeleteDocuments
    bulkPc,         \* "idle" | "deleting" | "returned"
    documentNames,  \* parameter
    bulkIdx,        \* position of the for-of loop
    bulkResult,     \* result: [success, failed]
    deleteLog,      \* the DELETE requests made, in order
    deletesInFlight \* requests made and not yet answered

VARIABLES
    \* documentManagementService: the functions on documents, each with its
    \* arguments and its result
    docPc,          \* "args": the arguments are set; "result": the function has returned
    doc,            \* enrichDocumentMetadata: parameter
    managed,        \* its result
    v1,             \* compareVersions: parameters
    v2,
    compared,       \* its result
    documents,      \* hasNewerVersion, filterDocuments: the documents
    currentDoc,     \* hasNewerVersion: index in documents of currentDoc
    sortOrder,      \* filterDocuments: filter.sortOrder
    newer,          \* result of hasNewerVersion
    filtered        \* result of filterDocuments

docVars == <<docPc, doc, managed, v1, v2, compared, documents, currentDoc,
             sortOrder, newer, filtered>>

VARIABLES
    \* createBlob
    pcmPc,          \* "args" | "result"
    data,           \* parameter: the samples, each as a number of steps of 1/SampleSteps
    int16           \* the Int16Array

pcmVars == <<pcmPc, data, int16>>

VARIABLES
    \* ChatbotView: the chat
    chatHistory,    \* <<[role, text]>>
    isQueryLoading, \* state; true while the fileSearch call of handleSendMessage is pending
    queryStore,     \* the store name the latest fileSearch call was given
    chatEnded       \* history: handleEndChat has run and no message was sent since

chatVars == <<chatHistory, isQueryLoading, queryStore, chatEnded>>

formVars == <<modalPc, modalError, mgmtPc, versionPc, lastSent, sentBy>>
bulkVars == <<bulkPc, documentNames, bulkIdx, bulkResult, deleteLog, deletesInFlight>>

liveUi == <<liveStatus, statusMessage>>
liveRefs == <<sessionPromiseRef, inputAudioContextRef, outputAudioContextRef,
              mediaStreamRef, scriptProcessorRef>>
liveText == <<transcripts, currentInputTranscription, currentOutputTranscription>>
livePlay == <<nextStartTimeRef, sourcesRef, sources, clock>>
liveEnv == <<mounted, startPc, session, created, released>>
liveHist == <<liveReported, lastEnd, teardowns>>
liveVars == <<liveUi, liveRefs, liveText, livePlay, liveEnv, liveHist>>

pollVars == <<pollPc, maxAttempts, intervalMs, attempts, pollReplies, checksIssued,
              checksInFlight, waitsDone, pollClock, pollResult, pollError>>

upVars == <<status, files, aistudio, uploadProgress, activeRagStoreName, upPc, i,
            ragStoreName, upFnPc, op, issued, uploadsInFlight, lastUpload, failedAt,
            handleErrorCalls, settled>>

storeVars == <<backendStores, userStore, loadPc, docUploadPc, docUploadName, managerError,
               storeRequests, returnedNames, loadAfterEnsure>>

vars == <<pollVars, upVars, storeVars, liveVars, formVars, bulkVars, docVars, pcmVars, chatVars>>

\* the variables of the other workflows
notPollVars == <<upVars, storeVars, liveVars, formVars, bulkVars, docVars, pcmVars, chatVars>>
notChatbotVars == <<pollVars, storeVars, liveVars, formVars, bulkVars, docVars, pcmVars>>
notUpVars == <<notChatbotVars, chatVars>>
notStoreVars == <<pollVars, upVars, liveVars, formVars, bulkVars, docVars, pcmVars, chatVars>>
notLiveVars == <<pollVars, upVars, storeVars, formVars, bulkVars, docVars, pcmVars, chatVars>>
notFormVars == <<pollVars, upVars, storeVars, liveVars, bulkVars, docVars, pcmVars, chatVars>>
notBulkVars == <<pollVars, upVars, storeVars, liveVars, formVars, docVars, pcmVars, chatVars>>
notDocVars == <<pollVars, upVars, storeVars, liveVars, formVars, bulkVars, pcmVars, chatVars>>
notPcmVars == <<pollVars, upVars, storeVars, liveVars, formVars, bulkVars, docVars, chatVars>>

\* ------------------------------------------- pollOperationUntilComplete
PollIdle ==
    /\ pollPc = "idle"
    /\ maxAttempts = 0
    /\ intervalMs = 0
    /\ attempts = 0
    /\ pollReplies = <<>>
    /\ checksIssued = 0
    /\ checksInFlight = 0
    /\ waitsDone = 0
    /\ pollClock = 0
    /\ pollResult = null
    /\ pollError = null

\* while (attempts < maxAttempts)
PollLoopGuardOffByOne(a, m) == a <= m
PollLoopGuard(a, m) == a < m

\* what the loop body does with the operation it got: lines 224-232
PollOutcomeIgnoresDone(operation) ==
    IF operation.done /\ operation.error # null THEN "throw" ELSE "wait"
PollOutcome(operation) ==
    IF operation.done
      THEN IF operation.error # null THEN "throw" ELSE "return"
      ELSE "wait"

\* the loop head, run at the call and after every timer: either the next
\* checkOperationStatus is called, or the loop ends and the timeout is thrown
PollLoopHead(a) ==
    IF PollLoopGuard(a, maxAttempts')
      THEN /\ pollPc' = "checking"
           /\ checksIssued' = checksIssued + 1
           /\ checksInFlight' = checksInFlight + 1
           /\ pollError' = pollError
      ELSE /\ pollPc' = "timeout"
           /\ pollError' = "Operation timed out - max polling attempts reached"
           /\ UNCHANGED <<checksIssued, checksInFlight>>

PollCall ==
    /\ pollPc = "idle"
    /\ \E m \in 0..MaxAttemptsBound, ms \in Intervals :
          /\ maxAttempts' = m
          /\ intervalMs' = ms
    /\ attempts' = 0
    /\ PollLoopHead(0)
    /\ UNCHANGED <<pollReplies, waitsDone, pollClock, pollResult>>
    /\ UNCHANGED notPollVars

\* checkOperationStatus resolves
PollCheckReply ==
    /\ pollPc = "checking"
    /\ \E operation \in OperationReplies :
          /\ pollReplies' = Append(pollReplies, operation)
          /\ checksInFlight' = checksInFlight - 1
          /\ CASE PollOutcome(operation) = "return" ->
                    /\ pollPc' = "returned"
                    /\ pollResult' = operation.response
                    /\ UNCHANGED pollError
               [] PollOutcome(operation) = "throw" ->
                    /\ pollPc' = "failed"
                    /\ pollError' = operation.error
                    /\ UNCHANGED pollResult
               [] OTHER ->
                    /\ pollPc' = "waiting"
                    /\ UNCHANGED <<pollResult, pollError>>
    /\ UNCHANGED <<maxAttempts, intervalMs, attempts, checksIssued, waitsDone, pollClock>>
    /\ UNCHANGED notPollVars

\* checkOperationStatus rejects: the catch block rethrows
PollCheckReject ==
    /\ pollPc = "checking"
    /\ \E e \in NetworkErrors :
          /\ pollReplies' = Append(pollReplies, [done |-> FALSE, error |-> e, response |-> null])
          /\ pollError' = e
    /\ checksInFlight' = checksInFlight - 1
    /\ pollPc' = "failed"
    /\ UNCHANGED <<maxAttempts, intervalMs, attempts, checksIssued, waitsDone, pollClock,
                   pollResult>>
    /\ UNCHANGED notPollVars

\* the interval timer fires: attempts++, then the loop head
PollTimer ==
    /\ pollPc = "waiting"
    /\ waitsDone' = waitsDone + 1
    /\ pollClock' = pollClock + intervalMs
    /\ attempts' = attempts + 1
    /\ UNCHANGED <<maxAttempts, intervalMs>>
    /\ PollLoopHead(attempts + 1)
    /\ UNCHANGED <<pollReplies, pollResult>>
    /\ UNCHANGED notPollVars


\* --------------------------------------- ChatbotView.handleUploadAndStartChat
totalProgress == 100
storeCreationWeight == 5
embeddingWeight == 95

\* names the backend gives to the stores it creates
StoreNames == {"fileSearchStores/a", "fileSearchStores/b"}
\* sizes of the batches a user selects
FileCounts == (1..MaxFiles) \cup {LargeBatch}

NoProgress == [current |-> -1, message |-> null, fileName |-> 0]
Progress(c, m, f) == [current |-> c, message |-> m, fileName |-> f]
NoOp == [done |-> FALSE, error |-> null]
NoUpload == [file |-> 0, opError |-> null, outcome |-> "none", error |-> null]
NotSettled == [state |-> "none", error |-> null]

\* what uploadToFileSearchStore and operations.get can answer
UploadOps ==
    [done : {FALSE}, error : {null}] \cup [done : {TRUE}, error : ErrorPayloads \cup {null}]

ChatIdle ==
    /\ chatHistory = <<>>
    /\ isQueryLoading = FALSE
    /\ queryStore = null
    /\ chatEnded = FALSE

UploadIdleState ==
    /\ status = "Initializing"
    /\ files = 0
    /\ uploadProgress = NoProgress
    /\ activeRagStoreName = null
    /\ upPc = "idle"
    /\ i = 0
    /\ ragStoreName = null
    /\ upFnPc = "none"
    /\ op = NoOp
    /\ issued = <<>>
    /\ uploadsInFlight = 0
    /\ lastUpload = NoUpload
    /\ failedAt = 0
    /\ handleErrorCalls = <<>>
    /\ settled = NotSettled
    /\ ChatIdle

UploadIdle == UploadIdleState /\ aistudio = FALSE

\* Math.round(storeCreationWeight + idx * (embeddingWeight / n)), with
\* Math.round(x) = floor(x + 1/2), in exact arithmetic (the doubles of the
\* source give the same value for every n of FileCounts)
FlooredProgress(idx, n) ==
    (storeCreationWeight * n + idx * embeddingWeight) \div n
RoundedProgress(idx, n) ==
    (2 * (storeCreationWeight * n + idx * embeddingWeight) + n) \div (2 * n)

\* i++ of the for loop
SkipFileIndex(idx) == idx + 2
NextFileIndex(idx) == idx + 1

\* useEffect(() => setStatus(AppStatus.Welcome), [])
Mount ==
    /\ status = "Initializing"
    /\ status' = "Welcome"
    /\ UNCHANGED <<files, aistudio, uploadProgress, activeRagStoreName, upPc, i,
                   ragStoreName, upFnPc, op, issued, uploadsInFlight, lastUpload,
                   failedAt, handleErrorCalls, settled>>
    /\ UNCHANGED notUpVars

\* setFiles from the welcome screen, while no handler is running
SelectFiles ==
    /\ status = "Welcome"
    /\ upPc = "idle"
    /\ \E n \in FileCounts \cup {0} : files' = n
    /\ UNCHANGED <<status, aistudio, uploadProgress, activeRagStoreName, upPc, i,
                   ragStoreName, upFnPc, op, issued, uploadsInFlight, lastUpload,
                   failedAt, handleErrorCalls, settled>>
    /\ UNCHANGED notUpVars

\* lines 86-96: setStatus(Uploading), progress 0, createRagStore is called
BeginUpload ==
    /\ status' = "Uploading"
    /\ uploadProgress' = Progress(0, "Creating document index...", 0)
    /\ upPc' = "createStore"

\* the history of a batch starts empty
BatchReset ==
    /\ i' = 0
    /\ ragStoreName' = null
    /\ issued' = <<>>
    /\ uploadsInFlight' = 0
    /\ lastUpload' = NoUpload
    /\ failedAt' = 0
    /\ handleErrorCalls' = <<>>
    /\ settled' = [state |-> "pending", error |-> null]

\* the user presses "Upload and Chat": lines 71-96 up to the first await
ClickUpload ==
    /\ status = "Welcome"
    /\ upPc = "idle"
    /\ files # 0
    /\ BatchReset
    /\ IF aistudio
         THEN /\ upPc' = "hasKey"
              /\ UNCHANGED <<status, uploadProgress>>
         ELSE BeginUpload
    /\ UNCHANGED <<files, aistudio, activeRagStoreName, upFnPc, op>>
    /\ UNCHANGED notUpVars

\* window.aistudio.hasSelectedApiKey() resolves
HasKeyReply ==
    /\ upPc = "hasKey"
    /\ \E hasKey \in BOOLEAN :
          IF hasKey
            THEN BeginUpload
            ELSE /\ upPc' = "selectKey"
                 /\ UNCHANGED <<status, uploadProgress>>
    /\ UNCHANGED <<files, aistudio, activeRagStoreName, i, ragStoreName, upFnPc, op,
                   issued, uploadsInFlight, lastUpload, failedAt, handleErrorCalls,
                   settled>>
    /\ UNCHANGED notUpVars

\* window.aistudio.openSelectKey() resolves
SelectKeyResolve ==
    /\ upPc = "selectKey"
    /\ BeginUpload
    /\ UNCHANGED <<files, aistudio, activeRagStoreName, i, ragStoreName, upFnPc, op,
                   issued, uploadsInFlight, lastUpload, failedAt, handleErrorCalls,
                   settled>>
    /\ UNCHANGED notUpVars

\* window.aistudio.openSelectKey() rejects: the handler returns
SelectKeyReject ==
    /\ upPc = "selectKey"
    /\ upPc' = "idle"
    /\ settled' = [state |-> "resolved", error |-> null]
    /\ UNCHANGED <<status, files, aistudio, uploadProgress, activeRagStoreName, i,
                   ragStoreName, upFnPc, op, issued, uploadsInFlight, lastUpload,
                   failedAt, handleErrorCalls>>
    /\ UNCHANGED notUpVars

\* the head of the for loop at index idx, lines 102-114: either the progress of
\* the file is shown and its upload is called, or the loop is over, 100 is
\* shown and the 500 ms pause starts
LoopHead(idx, store, inFlightNow) ==
    IF idx < files
      THEN /\ uploadProgress' =
                Progress(RoundedProgress(idx, files), "Generating embeddings...", idx + 1)
           /\ upPc' = "upload"
           /\ upFnPc' = "request"
           /\ op' = NoOp
           /\ issued' = Append(issued, [file |-> idx + 1, store |-> store])
           /\ uploadsInFlight' = inFlightNow + 1
      ELSE /\ uploadProgress' = Progress(totalProgress, "All set!", 0)
           /\ upPc' = "settle"
           /\ upFnPc' = "none"
           /\ op' = NoOp
           /\ issued' = issued
           /\ uploadsInFlight' = inFlightNow

\* createRagStore resolves with the store's name: lines 96-111
CreateStoreResolve ==
    /\ upPc = "createStore"
    /\ \E name \in StoreNames :
          /\ ragStoreName' = name
          /\ LoopHead(0, name, uploadsInFlight)
    /\ UNCHANGED <<status, files, aistudio, activeRagStoreName, i, lastUpload, failedAt,
                   handleErrorCalls, settled>>
    /\ UNCHANGED notUpVars

\* catch and finally, lines 132-138
CatchBlockNoRethrow(err) ==
    /\ handleErrorCalls' =
          Append(handleErrorCalls, [message |-> "Failed to start chat session", err |-> err])
    /\ status' = "Welcome"
    /\ settled' = [state |-> "resolved", error |-> null]
    /\ uploadProgress' = NoProgress
    /\ upPc' = "idle"
CatchBlock(err) ==
    /\ handleErrorCalls' =
          Append(handleErrorCalls, [message |-> "Failed to start chat session", err |-> err])
    /\ status' = "Welcome"
    /\ settled' = [state |-> "rejected", error |-> err]
    /\ uploadProgress' = NoProgress
    /\ upPc' = "idle"

\* createRagStore rejects
CreateStoreReject ==
    /\ upPc = "createStore"
    /\ \E err \in NetworkErrors : CatchBlock(err)
    /\ UNCHANGED <<files, aistudio, activeRagStoreName, i, ragStoreName, upFnPc, op,
                   issued, uploadsInFlight, lastUpload, failedAt>>
    /\ UNCHANGED notUpVars

\* uploadToRagStore returns, holding the operation o: the loop goes on
UploadReturns(o) ==
    /\ lastUpload' = [file |-> i + 1, opError |-> o.error, outcome |-> "resolved",
                      error |-> null]
    /\ i' = NextFileIndex(i)
    /\ LoopHead(NextFileIndex(i), ragStoreName, uploadsInFlight - 1)
    /\ UNCHANGED <<status, files, aistudio, activeRagStoreName, ragStoreName, failedAt,
                   handleErrorCalls, settled>>

\* uploadToRagStore throws err: the catch block of the handler runs
UploadThrowsLoopGoesOn(err) ==
    /\ lastUpload' = [file |-> i + 1, opError |-> op.error, outcome |-> "rejected",
                      error |-> err]
    /\ failedAt' = i + 1
    /\ i' = NextFileIndex(i)
    /\ LoopHead(NextFileIndex(i), ragStoreName, uploadsInFlight - 1)
    /\ UNCHANGED <<status, files, aistudio, activeRagStoreName, ragStoreName,
                   handleErrorCalls, settled>>
UploadThrows(err) ==
    /\ lastUpload' = [file |-> i + 1, opError |-> op.error, outcome |-> "rejected",
                      error |-> err]
    /\ failedAt' = i + 1
    /\ uploadsInFlight' = uploadsInFlight - 1
    /\ upFnPc' = "none"
    /\ op' = NoOp
    /\ CatchBlock(err)
    /\ UNCHANGED <<files, aistudio, activeRagStoreName, i, ragStoreName, issued>>

\* after an operation o was received: while (!op.done) { await delay(3000); ... }
AfterOperation(o) ==
    IF o.done
      THEN UploadReturns(o)
      ELSE /\ upFnPc' = "delay"
           /\ op' = o
           /\ UNCHANGED <<status, files, aistudio, uploadProgress, activeRagStoreName,
                          upPc, i, ragStoreName, issued, uploadsInFlight, lastUpload,
                          failedAt, handleErrorCalls, settled>>

\* ai.fileSearchStores.uploadToFileSearchStore resolves with an operation
UploadRequestResolve ==
    /\ upFnPc = "request"
    /\ \E o \in UploadOps : AfterOperation(o)
    /\ UNCHANGED notUpVars

\* ai.fileSearchStores.uploadToFileSearchStore rejects
UploadRequestReject ==
    /\ upFnPc = "request"
    /\ \E err \in NetworkErrors : UploadThrows(err)
    /\ UNCHANGED notUpVars

\* delay(3000) is over: ai.operations.get is called
UploadDelayTimer ==
    /\ upFnPc = "delay"
    /\ upFnPc' = "get"
    /\ UNCHANGED <<status, files, aistudio, uploadProgress, activeRagStoreName, upPc, i,
                   ragStoreName, op, issued, uploadsInFlight, lastUpload, failedAt,
                   handleErrorCalls, settled>>
    /\ UNCHANGED notUpVars

\* ai.operations.get resolves
UploadGetResolve ==
    /\ upFnPc = "get"
    /\ \E o \in UploadOps : AfterOperation(o)
    /\ UNCHANGED notUpVars

\* ai.operations.get rejects
UploadGetReject ==
    /\ upFnPc = "get"
    /\ \E err \in NetworkErrors : UploadThrows(err)
    /\ UNCHANGED notUpVars

\* the 500 ms pause is over: lines 118-131 and the finally block
SettleTimer ==
    /\ upPc = "settle"
    /\ activeRagStoreName' = ragStoreName
    /\ status' = "Chatting"
    /\ files' = 0
    /\ uploadProgress' = NoProgress
    /\ upPc' = "idle"
    /\ settled' = [state |-> "resolved", error |-> null]
    /\ chatHistory' = <<>>
    /\ UNCHANGED <<aistudio, i, ragStoreName, upFnPc, op, issued, uploadsInFlight,
                   lastUpload, failedAt, handleErrorCalls>>
    /\ UNCHANGED <<isQueryLoading, queryStore, chatEnded>>
    /\ UNCHANGED notChatbotVars

\* ------------------------------------------------------- ChatbotView: the chat
\* most entries of the chat history
MaxMessages == 4

KeptByChat == <<files, aistudio, uploadProgress, upPc, i, ragStoreName, upFnPc, op, issued,
                uploadsInFlight, lastUpload, failedAt, settled>>

\* handleEndChat without its setStatus call
HandleEndChatKeepsStatus ==
    /\ status = "Chatting"
    /\ activeRagStoreName' = null
    /\ chatHistory' = <<>>
    /\ files' = 0
    /\ status' = status
    /\ chatEnded' = TRUE
    /\ UNCHANGED <<aistudio, uploadProgress, upPc, i, ragStoreName, upFnPc, op, issued,
                   uploadsInFlight, lastUpload, failedAt, settled, handleErrorCalls>>
    /\ UNCHANGED <<isQueryLoading, queryStore>>
    /\ UNCHANGED notChatbotVars

\* "New chat" of the chat screen: handleEndChat
HandleEndChat ==
    /\ status = "Chatting"
    /\ activeRagStoreName' = null
    /\ chatHistory' = <<>>
    /\ files' = 0
    /\ status' = "Welcome"
    /\ chatEnded' = TRUE
    /\ UNCHANGED <<aistudio, uploadProgress, upPc, i, ragStoreName, upFnPc, op, issued,
                   uploadsInFlight, lastUpload, failedAt, settled, handleErrorCalls>>
    /\ UNCHANGED <<isQueryLoading, queryStore>>
    /\ UNCHANGED notChatbotVars

\* the user sends a message from the chat screen (the input is disabled while a
\* query is loading): handleSendMessage up to the await of fileSearch
HandleSendMessage ==
    /\ status = "Chatting"
    /\ ~isQueryLoading
    /\ Len(chatHistory) + 2 <= MaxMessages
    /\ IF activeRagStoreName = null
         THEN UNCHANGED chatVars
         ELSE /\ chatHistory' = Append(chatHistory, [role |-> "user", text |-> "message"])
              /\ isQueryLoading' = TRUE
              /\ queryStore' = activeRagStoreName
              /\ chatEnded' = FALSE
    /\ UNCHANGED upVars
    /\ UNCHANGED notChatbotVars

\* fileSearch resolves: the answer is appended
QueryResolve ==
    /\ isQueryLoading
    /\ chatHistory' = Append(chatHistory, [role |-> "model", text |-> "answer"])
    /\ isQueryLoading' = FALSE
    /\ UNCHANGED <<queryStore, chatEnded>>
    /\ UNCHANGED upVars
    /\ UNCHANGED notChatbotVars

\* fileSearch rejects: the apology is appended and the error is reported
QueryReject ==
    /\ isQueryLoading
    /\ chatHistory' = Append(chatHistory,
          [role |-> "model", text |-> "Sorry, I encountered an error. Please try again."])
    /\ isQueryLoading' = FALSE
    /\ \E err \in NetworkErrors :
          handleErrorCalls' =
             Append(handleErrorCalls, [message |-> "Failed to get response", err |-> err])
    /\ UNCHANGED <<queryStore, chatEnded>>
    /\ UNCHANGED <<status, KeptByChat, activeRagStoreName>>
    /\ UNCHANGED notChatbotVars

\* ------------------------------- DocumentManager: ensureUserStore, handleUpload
\* concurrent runs of loadInitialData (mount effect, websocket updates, reloads)
MaxLoaders == 2
Loaders == 1..MaxLoaders

userId == "u1"
\* getUserStoreName(): `ragStores/${userId}`
UserStoreName == "ragStores/u1"
\* the names the backend may give to a store it creates
BackendNames == {"ragStores/u1", "fileSearchStores/x", "fileSearchStores/y"}

StoreIdle ==
    /\ backendStores = {}
    /\ userStore = null
    /\ loadPc = [l \in Loaders |-> "idle"]
    /\ docUploadPc = "idle"
    /\ docUploadName = null
    /\ managerError = null
    /\ storeRequests = {}
    /\ returnedNames = {}
    /\ loadAfterEnsure = [l \in Loaders |-> FALSE]

\* allStores.find(s => s.name === userStoreName), on the list the backend answered
FindUserStore(list) == IF UserStoreName \in list THEN UserStoreName ELSE null

\* lines 376-386: the store looked up in the list fetched after the creation,
\* or else an object built with the user store name
StoreAfterCreate(list) ==
    IF FindUserStore(list) # null THEN FindUserStore(list) ELSE UserStoreName

\* loadInitialData is called: setLoading, setError(null), ensureUserStore calls
\* listRagStores
StartLoad(l) ==
    /\ loadPc[l] = "idle"
    /\ loadPc' = [loadPc EXCEPT ![l] = "list"]
    /\ managerError' = null
    /\ UNCHANGED <<backendStores, userStore, docUploadPc, docUploadName, storeRequests,
                   returnedNames>>
    /\ loadAfterEnsure' = [loadAfterEnsure EXCEPT ![l] = (userStore # null)]
    /\ UNCHANGED notStoreVars

\* the first listRagStores resolves: lines 363-394
ListResolve(l) ==
    /\ loadPc[l] = "list"
    /\ returnedNames' = returnedNames \cup backendStores
    /\ IF FindUserStore(backendStores) # null
         THEN /\ userStore' = FindUserStore(backendStores)
              /\ loadPc' = [loadPc EXCEPT ![l] = "docs"]
         ELSE /\ loadPc' = [loadPc EXCEPT ![l] = "create"]
              /\ UNCHANGED userStore
    /\ UNCHANGED <<backendStores, docUploadPc, docUploadName, managerError, storeRequests>>
    /\ UNCHANGED loadAfterEnsure
    /\ UNCHANGED notStoreVars

\* a request of ensureUserStore or of the Promise.all rejects: lines 395-397, 431-434
LoadReject(l) ==
    /\ loadPc[l] \in {"list", "create", "relist", "docs"}
    /\ loadPc' = [loadPc EXCEPT ![l] = "idle"]
    /\ managerError' = "Failed to load documents. Please try again."
    /\ UNCHANGED <<backendStores, userStore, docUploadPc, docUploadName, storeRequests,
                   returnedNames>>
    /\ UNCHANGED loadAfterEnsure
    /\ UNCHANGED notStoreVars

\* createRagStore resolves: the backend has made a store under a name it chose;
\* the answer is dropped (newStoreName is not read) and listRagStores is called
CreateResolve(l) ==
    /\ loadPc[l] = "create"
    /\ \E name \in BackendNames \ backendStores :
          /\ backendStores' = backendStores \cup {name}
          /\ returnedNames' = returnedNames \cup {name}
    /\ loadPc' = [loadPc EXCEPT ![l] = "relist"]
    /\ UNCHANGED <<userStore, docUploadPc, docUploadName, managerError, storeRequests>>
    /\ UNCHANGED loadAfterEnsure
    /\ UNCHANGED notStoreVars

\* the second listRagStores resolves: lines 377-394
RelistResolve(l) ==
    /\ loadPc[l] = "relist"
    /\ returnedNames' = returnedNames \cup backendStores
    /\ userStore' = StoreAfterCreate(backendStores)
    /\ loadPc' = [loadPc EXCEPT ![l] = "docs"]
    /\ UNCHANGED <<backendStores, docUploadPc, docUploadName, managerError, storeRequests>>
    /\ UNCHANGED loadAfterEnsure
    /\ UNCHANGED notStoreVars

\* the Promise.all of loadInitialData resolves: lines 418-430
DocsResolve(l) ==
    /\ loadPc[l] = "docs"
    /\ loadPc' = [loadPc EXCEPT ![l] = "idle"]
    /\ UNCHANGED <<backendStores, userStore, docUploadPc, docUploadName, managerError,
                   storeRequests, returnedNames>>
    /\ UNCHANGED loadAfterEnsure
    /\ UNCHANGED notStoreVars

\* handleUpload: uploadDocument(userStore.name, file, metadata) is called
HandleUpload ==
    /\ docUploadPc = "idle"
    /\ userStore # null
    /\ docUploadPc' = "upload"
    /\ docUploadName' = userStore
    /\ storeRequests' = storeRequests \cup {[kind |-> "upload", name |-> userStore]}
    /\ UNCHANGED <<backendStores, userStore, loadPc, managerError, returnedNames>>
    /\ UNCHANGED loadAfterEnsure
    /\ UNCHANGED notStoreVars

\* uploadDocument resolves (the store exists): loadInitialData is called
DocUploadResolve(l) ==
    /\ docUploadPc = "upload"
    /\ docUploadName \in backendStores
    /\ loadPc[l] = "idle"
    /\ docUploadPc' = "idle"
    /\ docUploadName' = null
    /\ loadPc' = [loadPc EXCEPT ![l] = "list"]
    /\ managerError' = null
    /\ UNCHANGED <<backendStores, userStore, storeRequests, returnedNames>>
    /\ loadAfterEnsure' = [loadAfterEnsure EXCEPT ![l] = (userStore # null)]
    /\ UNCHANGED notStoreVars

\* uploadDocument rejects: handleUpload throws 'Upload failed'
DocUploadReject ==
    /\ docUploadPc = "upload"
    /\ docUploadPc' = "idle"
    /\ docUploadName' = null
    /\ UNCHANGED <<backendStores, userStore, loadPc, managerError, storeRequests,
                   returnedNames>>
    /\ UNCHANGED loadAfterEnsure
    /\ UNCHANGED notStoreVars

\* =========================================== LiveDemoView: the live audio session
\* runs of handleStartDemo over the life of the component
MaxStarts == 2
Runs == 1..MaxStarts
\* audio chunks the server sends
MaxChunks == 2
\* longest text of a turn, in fragments, and longest transcript
MaxText == 2
MaxEntries == 3
\* seconds of output time observed, and the longest chunk
MaxTime == 4
MaxDuration == 2

\* useRef(null)
NoRef == 0
\* the resources a run makes, by the ref that holds them
Kinds == {"session", "stream", "processor", "inputCtx", "outputCtx"}

IdleMessage == "Click to start the live demo"

\* one more call on a resource
More(n) == IF n >= 1 THEN 2 ELSE 1

\* Math.max
CurrentTimeOnly(a, b) == b
Max(a, b) == IF a >= b THEN a ELSE b

\* source.stop() on the members of a set
StopNone(srcs, set) == srcs
StopAll(srcs, set) ==
    [j \in DOMAIN srcs |->
        IF j \in set THEN [srcs[j] EXCEPT !.stops = More(@)] ELSE srcs[j]]

\* history: an interrupt has been handled since these sources were made
Cut(srcs) == [j \in DOMAIN srcs |-> [srcs[j] EXCEPT !.cut = TRUE]]

\* a setState call: React drops it once the component is unmounted
SetState(alive, old, new) == IF alive THEN new ELSE old

LiveIdle ==
    /\ liveStatus = "idle"
    /\ statusMessage = IdleMessage
    /\ transcripts = <<>>
    /\ currentInputTranscription = <<>>
    /\ currentOutputTranscription = <<>>
    /\ sessionPromiseRef = NoRef
    /\ inputAudioContextRef = NoRef
    /\ outputAudioContextRef = NoRef
    /\ mediaStreamRef = NoRef
    /\ scriptProcessorRef = NoRef
    /\ nextStartTimeRef = 0
    /\ sourcesRef = {}
    /\ mounted = TRUE
    /\ startPc = [r \in Runs |-> "unused"]
    /\ session = [r \in Runs |-> "none"]
    /\ created = [k \in Kinds |-> [r \in Runs |-> FALSE]]
    /\ released = [k \in Kinds |-> [r \in Runs |-> 0]]
    /\ sources = <<>>
    /\ clock = 0
    /\ liveReported = null
    /\ lastEnd = "none"
    /\ teardowns = 0

\* the ref that holds the resources of a kind
RefOf(k) ==
    CASE k = "session" -> sessionPromiseRef
      [] k = "stream" -> mediaStreamRef
      [] k = "processor" -> scriptProcessorRef
      [] k = "inputCtx" -> inputAudioContextRef
      [] k = "outputCtx" -> outputAudioContextRef

\* the guards of handleEndDemo: the ref is set and, for an audio context, its
\* state is not 'closed'
Releases(k) ==
    /\ RefOf(k) # NoRef
    /\ k \in {"inputCtx", "outputCtx"} => released[k][RefOf(k)] = 0

\* handleEndDemo without the reset of mediaStreamRef
HandleEndDemoKeepsStream(alive) ==
    /\ liveStatus' = SetState(alive, liveStatus, "idle")
    /\ statusMessage' = SetState(alive, statusMessage, IdleMessage)
    /\ sessionPromiseRef' = NoRef
    /\ mediaStreamRef' = mediaStreamRef
    /\ scriptProcessorRef' = NoRef
    /\ inputAudioContextRef' =
          IF Releases("inputCtx") THEN NoRef ELSE inputAudioContextRef
    /\ outputAudioContextRef' =
          IF Releases("outputCtx") THEN NoRef ELSE outputAudioContextRef
    /\ released' = [k \in Kinds |-> [r \in Runs |->
          IF Releases(k) /\ RefOf(k) = r THEN More(released[k][r])
                                         ELSE released[k][r]]]
    /\ sources' = IF Releases("outputCtx") THEN StopAll(sources, sourcesRef) ELSE sources
    /\ sourcesRef' = IF Releases("outputCtx") THEN {} ELSE sourcesRef
    /\ teardowns' = More(teardowns)

\* handleEndDemo (alive: whether the component's state can still be set)
HandleEndDemo(alive) ==
    /\ liveStatus' = SetState(alive, liveStatus, "idle")
    /\ statusMessage' = SetState(alive, statusMessage, IdleMessage)
    /\ sessionPromiseRef' = NoRef
    /\ mediaStreamRef' = NoRef
    /\ scriptProcessorRef' = NoRef
    /\ inputAudioContextRef' =
          IF Releases("inputCtx") THEN NoRef ELSE inputAudioContextRef
    /\ outputAudioContextRef' =
          IF Releases("outputCtx") THEN NoRef ELSE outputAudioContextRef
    /\ released' = [k \in Kinds |-> [r \in Runs |->
          IF Releases(k) /\ RefOf(k) = r THEN More(released[k][r])
                                         ELSE released[k][r]]]
    /\ sources' = IF Releases("outputCtx") THEN StopAll(sources, sourcesRef) ELSE sources
    /\ sourcesRef' = IF Releases("outputCtx") THEN {} ELSE sourcesRef
    /\ teardowns' = More(teardowns)

\* what handleEndDemo leaves alone
KeptByEndDemo == <<liveText, nextStartTimeRef, clock>>

\* lines 2184-2196: the transcript is cleared, the status is connecting, the two
\* audio contexts are made and getUserMedia is called
BeginConnect(r) ==
    /\ transcripts' = SetState(mounted, transcripts, <<>>)
    /\ liveStatus' = SetState(mounted, liveStatus, "connecting")
    /\ statusMessage' = SetState(mounted, statusMessage, "Initializing session...")
    /\ inputAudioContextRef' = r
    /\ outputAudioContextRef' = r
    /\ created' = [created EXCEPT !["inputCtx"][r] = TRUE, !["outputCtx"][r] = TRUE]
    /\ clock' = 0
    /\ startPc' = [startPc EXCEPT ![r] = "media"]
    /\ UNCHANGED <<currentInputTranscription, currentOutputTranscription,
                   sessionPromiseRef, mediaStreamRef, scriptProcessorRef,
                   nextStartTimeRef, sourcesRef, sources, mounted, session, released, liveReported>>

\* the next run of handleStartDemo
FreshRun(r) == startPc[r] = "unused" /\ \A q \in Runs : q < r => startPc[q] # "unused"

\* handleButtonClick with the status idle or error: handleStartDemo
LiveStart ==
    /\ mounted
    /\ liveStatus \in {"idle", "error"}
    /\ \E r \in Runs :
          /\ FreshRun(r)
          /\ IF aistudio
               THEN /\ startPc' = [startPc EXCEPT ![r] = "hasKey"]
                    /\ UNCHANGED <<liveUi, liveRefs, liveText, livePlay, mounted,
                                   session, created, released, liveReported>>
               ELSE BeginConnect(r)
    /\ lastEnd' = "none"
    /\ teardowns' = 0
    /\ UNCHANGED notLiveVars

\* window.aistudio.hasSelectedApiKey() resolves
LiveHasKeyReply(r) ==
    /\ startPc[r] = "hasKey"
    /\ \E hasKey \in BOOLEAN :
          IF hasKey
            THEN BeginConnect(r)
            ELSE /\ startPc' = [startPc EXCEPT ![r] = "selectKey"]
                 /\ UNCHANGED <<liveUi, liveRefs, liveText, livePlay, mounted,
                                session, created, released, liveReported>>
    /\ teardowns' = 0
    /\ UNCHANGED lastEnd
    /\ UNCHANGED notLiveVars

\* window.aistudio.openSelectKey() resolves
LiveSelectKeyResolve(r) ==
    /\ startPc[r] = "selectKey"
    /\ BeginConnect(r)
    /\ teardowns' = 0
    /\ UNCHANGED lastEnd
    /\ UNCHANGED notLiveVars

\* window.aistudio.openSelectKey() rejects: handleStartDemo returns
LiveSelectKeyReject(r) ==
    /\ startPc[r] = "selectKey"
    /\ startPc' = [startPc EXCEPT ![r] = "over"]
    /\ teardowns' = 0
    /\ UNCHANGED <<liveUi, liveRefs, liveText, livePlay, mounted, session, created,
                   released, liveReported, lastEnd>>
    /\ UNCHANGED notLiveVars

\* getUserMedia resolves: the stream is kept and ai.live.connect is called
MediaResolve(r) ==
    /\ startPc[r] = "media"
    /\ mediaStreamRef' = r
    /\ sessionPromiseRef' = r
    /\ created' = [created EXCEPT !["stream"][r] = TRUE, !["session"][r] = TRUE]
    /\ session' = [session EXCEPT ![r] = "connecting"]
    /\ startPc' = [startPc EXCEPT ![r] = "over"]
    /\ teardowns' = 0
    /\ UNCHANGED <<liveUi, inputAudioContextRef, outputAudioContextRef,
                   scriptProcessorRef, liveText, livePlay, mounted, released,
                   liveReported, lastEnd>>
    /\ UNCHANGED notLiveVars

\* getUserMedia rejects: the catch block of handleStartDemo
MediaReject(r) ==
    /\ startPc[r] = "media"
    /\ startPc' = [startPc EXCEPT ![r] = "over"]
    /\ liveReported' = "Failed to start live demo"
    /\ HandleEndDemo(mounted)
    /\ lastEnd' = "startFailure"
    /\ UNCHANGED <<KeptByEndDemo, mounted, session, created>>
    /\ UNCHANGED notLiveVars

\* the onopen callback of run r's channel
SessionOpen(r) ==
    /\ session[r] = "connecting"
    /\ session' = [session EXCEPT ![r] = "open"]
    /\ liveStatus' = SetState(mounted, liveStatus, "active")
    /\ statusMessage' = SetState(mounted, statusMessage, "Listening...")
    /\ IF inputAudioContextRef # NoRef
         THEN /\ scriptProcessorRef' = r
              /\ created' = [created EXCEPT !["processor"][r] = TRUE]
         ELSE UNCHANGED <<scriptProcessorRef, created>>
    /\ teardowns' = 0
    /\ UNCHANGED <<sessionPromiseRef, inputAudioContextRef, outputAudioContextRef,
                   mediaStreamRef, liveText, livePlay, mounted, startPc, released, liveReported, lastEnd>>
    /\ UNCHANGED notLiveVars

\* the onerror callback of run r's channel
SessionError(r) ==
    /\ session[r] \in {"connecting", "open"}
    /\ session' = [session EXCEPT ![r] = "errored"]
    /\ liveReported' = "Live session error"
    /\ HandleEndDemo(mounted)
    /\ lastEnd' = "error"
    /\ UNCHANGED <<KeptByEndDemo, mounted, startPc, created>>
    /\ UNCHANGED notLiveVars

\* the onclose callback of run r's channel
SessionClose(r) ==
    /\ session[r] \in {"connecting", "open", "errored"}
    /\ session' = [session EXCEPT ![r] = "closed"]
    /\ HandleEndDemo(mounted)
    /\ lastEnd' = IF lastEnd = "none" THEN "close" ELSE lastEnd
    /\ UNCHANGED <<KeptByEndDemo, mounted, startPc, created, liveReported>>
    /\ UNCHANGED notLiveVars

\* handleButtonClick with the status connecting or active: handleEndDemo
LiveStop ==
    /\ mounted
    /\ liveStatus \in {"connecting", "active"}
    /\ HandleEndDemo(mounted)
    /\ lastEnd' = "stop"
    /\ UNCHANGED <<KeptByEndDemo, mounted, startPc, session, created, liveReported>>
    /\ UNCHANGED notLiveVars

\* the component is unmounted: the effect's cleanup calls handleEndDemo
Unmount ==
    /\ mounted
    /\ mounted' = FALSE
    /\ HandleEndDemo(FALSE)
    /\ lastEnd' = IF lastEnd = "none" THEN "unmount" ELSE lastEnd
    /\ UNCHANGED <<KeptByEndDemo, startPc, session, created, liveReported>>
    /\ UNCHANGED notLiveVars

\* ------------------------------------------------ LiveDemoView: server messages
\* the text of a transcription fragment; a text is a sequence of them
Fragments == {"x", " "}

\* messages with audio and interrupts
AudioMessages ==
    [input : {null}, output : {null}, audio : 0..MaxDuration,
     interrupted : BOOLEAN, turnComplete : {FALSE}]

\* a message with one short audio chunk
ChunkMessages ==
    [input : {null}, output : {null}, audio : {1}, interrupted : {FALSE},
     turnComplete : {FALSE}]

\* messages with transcription fragments and turn ends
TranscriptMessages ==
    [input : Fragments \cup {null}, output : Fragments \cup {null}, audio : {0},
     interrupted : {FALSE}, turnComplete : BOOLEAN]

\* text.trim() is not empty
Trimmed(text) == \E k \in DOMAIN text : text[k] # " "

\* lines 2291-2306: the update of the transcript for one speaker
UpdateEntry(t, speaker, text) ==
    IF Len(t) > 0 /\ t[Len(t)].speaker = speaker /\ ~t[Len(t)].isFinal
      THEN [t EXCEPT ![Len(t)].text = text]
      ELSE IF Trimmed(text)
             THEN Append(t, [speaker |-> speaker, text |-> text, isFinal |-> FALSE])
             ELSE t

\* lines 2313-2317: the entries holding the final texts are marked final
MarkFinal(t, finalInput, finalOutput) ==
    [k \in DOMAIN t |->
        IF \/ t[k].speaker = "user" /\ t[k].text = finalInput
           \/ t[k].speaker = "model" /\ t[k].text = finalOutput
          THEN [t[k] EXCEPT !.isFinal = TRUE]
          ELSE t[k]]

\* handleTranscription: the transcript and the two accumulators it leaves
HandleTranscription(msg, t, accIn, accOut) ==
    LET newIn == IF msg.input # null THEN Append(accIn, msg.input) ELSE accIn
        newOut == IF msg.output # null THEN Append(accOut, msg.output) ELSE accOut
        t1 == IF msg.input # null THEN UpdateEntry(t, "user", newIn) ELSE t
        t2 == IF msg.output # null THEN UpdateEntry(t1, "model", newOut) ELSE t1
    IN  IF msg.turnComplete
          THEN [t |-> MarkFinal(t2, newIn, newOut), accIn |-> <<>>, accOut |-> <<>>]
          ELSE [t |-> t2, accIn |-> newIn, accOut |-> newOut]

\* history: the source made before this one, when no interrupt came in between
Before(srcs) ==
    IF Len(srcs) > 0 /\ ~srcs[Len(srcs)].cut THEN Len(srcs) ELSE 0

\* the onmessage callback of run r's channel
OnMessage(r, msg) ==
    /\ session[r] = "open"
    /\ msg.audio > 0 => Len(sources) < MaxChunks
    /\ msg.input # null => Len(currentInputTranscription) < MaxText
    /\ msg.output # null => Len(currentOutputTranscription) < MaxText
    /\ LET h == HandleTranscription(msg, transcripts, currentInputTranscription,
                                    currentOutputTranscription)
       IN  /\ Len(h.t) <= MaxEntries
           /\ transcripts' = SetState(mounted, transcripts, h.t)
           /\ currentInputTranscription' = h.accIn
           /\ currentOutputTranscription' = h.accOut
    /\ LET hasAudio == msg.audio > 0 /\ outputAudioContextRef # NoRef
           \* source.connect(outputNode) throws when the output context is not
           \* the one of this run's outputNode
           thrown == hasAudio /\ outputAudioContextRef # r
           startAt == Max(nextStartTimeRef, clock)
           made == [start |-> startAt, duration |-> msg.audio, stops |-> 0,
                    ended |-> FALSE, arrived |-> clock, follows |-> Before(sources),
                    cut |-> FALSE, run |-> r]
           srcs1 == IF hasAudio /\ ~thrown THEN Append(sources, made) ELSE sources
           set1 == IF hasAudio /\ ~thrown THEN sourcesRef \cup {Len(srcs1)}
                                          ELSE sourcesRef
           next1 == IF ~hasAudio THEN nextStartTimeRef
                    ELSE IF thrown THEN startAt ELSE startAt + msg.audio
           text1 == IF hasAudio THEN "AI is speaking..." ELSE statusMessage
       IN  IF msg.interrupted /\ ~thrown
             THEN /\ sources' = Cut(StopAll(srcs1, set1))
                  /\ sourcesRef' = {}
                  /\ nextStartTimeRef' = 0
                  /\ statusMessage' = SetState(mounted, statusMessage, "Listening...")
             ELSE /\ sources' = srcs1
                  /\ sourcesRef' = set1
                  /\ nextStartTimeRef' = next1
                  /\ statusMessage' = SetState(mounted, statusMessage, text1)
    /\ teardowns' = 0
    /\ UNCHANGED <<liveStatus, liveRefs, clock, mounted, startPc, session, created,
                   released, liveReported, lastEnd>>
    /\ UNCHANGED notLiveVars

\* the 'ended' event of a source: it has played to its end or was stopped
SourceEnded(j) ==
    /\ j \in DOMAIN sources
    /\ ~sources[j].ended
    /\ sources[j].stops > 0 \/ clock >= sources[j].start + sources[j].duration
    /\ sources' = [sources EXCEPT ![j].ended = TRUE]
    /\ sourcesRef' = sourcesRef \ {j}
    /\ statusMessage' = IF sourcesRef \ {j} = {}
                          THEN SetState(mounted, statusMessage, "Listening...")
                          ELSE statusMessage
    /\ teardowns' = 0
    /\ UNCHANGED <<liveStatus, liveRefs, liveText, nextStartTimeRef, clock, liveEnv,
                   liveReported, lastEnd>>
    /\ UNCHANGED notLiveVars

\* the output context's currentTime advances
Tick ==
    /\ outputAudioContextRef # NoRef
    /\ clock < MaxTime
    /\ clock' = clock + 1
    /\ UNCHANGED <<liveUi, liveRefs, liveText, nextStartTimeRef, sourcesRef, sources,
                   liveEnv, liveHist>>
    /\ UNCHANGED notLiveVars

\* ======================================= metadata validation and the upload forms
\* longest version string typed, in characters, and most custom metadata rows
MaxVersionLen == 2
MaxRows == 2

\* the characters of a version string: a digit, the dot, a letter, a blank
Chars == {"1", ".", "a", " "}
Strings(n) == UNION {[1..k -> Chars] : k \in 0..n}
\* the keys typed in the custom metadata rows (trimmed)
RowKeys == {"", "version", "notes", "site"}
SomeText == <<"a">>

\* the decimal digits that occur in the strings
Digits == {"0", "1", "2"}

\* /^\d+(\.\d+)*$/.test(v)
VersionPattern(v) ==
    /\ Len(v) > 0
    /\ \A k \in DOMAIN v : v[k] \in Digits \cup {"."}
    /\ v[1] \in Digits
    /\ v[Len(v)] \in Digits
    /\ \A k \in 1..(Len(v) - 1) : ~(v[k] = "." /\ v[k + 1] = ".")

\* String.prototype.trim
RECURSIVE TrimStart(_)
TrimStart(v) == IF Len(v) > 0 /\ v[1] = " " THEN TrimStart(Tail(v)) ELSE v
RECURSIVE TrimEnd(_)
TrimEnd(v) ==
    IF Len(v) > 0 /\ v[Len(v)] = " " THEN TrimEnd(SubSeq(v, 1, Len(v) - 1)) ELSE v
Trim(v) == TrimEnd(TrimStart(v))

Entry(key, value) == [key |-> key, stringValue |-> value]

\* metadata.find(m => m.key === 'version')
VersionMeta(metadata) ==
    metadata[CHOOSE k \in DOMAIN metadata :
                /\ metadata[k].key = "version"
                /\ \A j \in 1..(k - 1) : metadata[j].key # "version"]

\* validateDocumentMetadata: the errors it returns
ValidationErrors(metadata) ==
    LET hasVersion == \E k \in DOMAIN metadata : metadata[k].key = "version"
        required == IF hasVersion THEN <<>> ELSE <<"Version number is required">>
        format ==
            IF /\ hasVersion
               /\ VersionMeta(metadata).stringValue # <<>>
               /\ ~VersionPattern(VersionMeta(metadata).stringValue)
              THEN <<"Version must be in format: X.Y.Z (e.g., 2.1.0)">>
              ELSE <<>>
        duplicates ==
            IF \E j, k \in DOMAIN metadata : j < k /\ metadata[j].key = metadata[k].key
              THEN <<"Duplicate metadata keys">>
              ELSE <<>>
    IN  required \o format \o duplicates

\* validateDocumentMetadata(metadata).valid
Valid(metadata) == ValidationErrors(metadata) = <<>>

FormIdle ==
    /\ modalPc = "idle"
    /\ modalError = <<>>
    /\ mgmtPc = "idle"
    /\ versionPc = "idle"
    /\ lastSent = <<>>
    /\ sentBy = "none"

\* UploadModal.handleSubmit with the fields of the form: DocumentManager.tsx 91-120;
\* the version input is required, so the form is not submitted with it empty
HandleSubmit(version, category, tags) ==
    /\ modalPc = "idle"
    /\ version # <<>>
    /\ LET metadata ==
             <<Entry("version", version), Entry("notes", SomeText),
               Entry("uploadedBy", SomeText)>>
               \o (IF category THEN <<Entry("category", SomeText)>> ELSE <<>>)
               \o (IF tags THEN <<Entry("tags", SomeText)>> ELSE <<>>)
       IN  IF Valid(metadata)
             THEN /\ modalPc' = "uploading"
                  /\ modalError' = <<>>
                  /\ lastSent' = metadata
                  /\ sentBy' = "modal"
             ELSE /\ modalError' = ValidationErrors(metadata)
                  /\ UNCHANGED <<modalPc, lastSent, sentBy>>
    /\ UNCHANGED <<mgmtPc, versionPc>>
    /\ UNCHANGED notFormVars

\* onUpload settles: the form is reset, or the error of the upload is shown
SubmitSettle ==
    /\ modalPc = "uploading"
    /\ modalPc' = "idle"
    /\ \E failed \in BOOLEAN :
          modalError' = IF failed THEN <<"Upload failed">> ELSE modalError
    /\ UNCHANGED <<mgmtPc, versionPc, lastSent, sentBy>>
    /\ UNCHANGED notFormVars

\* the keys of the rows whose key is not blank
RECURSIVE NamedRows(_)
NamedRows(rows) ==
    IF rows = <<>> THEN <<>>
    ELSE IF Head(rows) = "" THEN NamedRows(Tail(rows))
         ELSE <<Entry(Head(rows), SomeText)>> \o NamedRows(Tail(rows))

\* ManagementView.handleConfirmUpload with the fields of the modal:
\* ChatInterface.tsx 570-585
HandleConfirmUpload(versionNumber, changeNotes, customMetadata) ==
    /\ mgmtPc = "idle"
    /\ Trim(versionNumber) # <<>>
    /\ mgmtPc' = "uploading"
    /\ lastSent' = <<Entry("version", Trim(versionNumber))>>
                     \o (IF changeNotes THEN <<Entry("notes", SomeText)>> ELSE <<>>)
                     \o NamedRows(customMetadata)
    /\ sentBy' = "management"
    /\ UNCHANGED <<modalPc, modalError, versionPc>>
    /\ UNCHANGED notFormVars

\* uploadDocument and loadData settle
ConfirmSettle ==
    /\ mgmtPc = "uploading"
    /\ mgmtPc' = "idle"
    /\ UNCHANGED <<modalPc, modalError, versionPc, lastSent, sentBy>>
    /\ UNCHANGED notFormVars

\* VersionControlView.handleUpload with the fields of the modal:
\* ChatbotView.tsx 564-575
VersionHandleUpload(versionNumber) ==
    /\ versionPc = "idle"
    /\ Trim(versionNumber) # <<>>
    /\ versionPc' = "uploading"
    /\ lastSent' = <<Entry("version", Trim(versionNumber)), Entry("notes", SomeText)>>
    /\ sentBy' = "versionControl"
    /\ UNCHANGED <<modalPc, modalError, mgmtPc>>
    /\ UNCHANGED notFormVars

\* uploadDocument and loadData settle
VersionSettle ==
    /\ versionPc = "uploading"
    /\ versionPc' = "idle"
    /\ UNCHANGED <<modalPc, modalError, mgmtPc, lastSent, sentBy>>
    /\ UNCHANGED notFormVars

\* ============================================================ bulkDeleteDocuments
\* most documents selected for one bulk delete
MaxDocs == 3
DocNames == {"d1", "d2", "d3", "d4"}
\* Array.from(selectedDocs): the names of a set, each once
Selections ==
    {names \in UNION {[1..k -> DocNames] : k \in 0..MaxDocs} :
        \A j, k \in DOMAIN names : j # k => names[j] # names[k]}
\* errorDetails?.message || 'Unknown error'
DeleteErrors == {"An error occurred", "No response from server. Please check your connection."}

BulkIdle ==
    /\ bulkPc = "idle"
    /\ documentNames = <<>>
    /\ bulkIdx = 0
    /\ bulkResult = [success |-> <<>>, failed |-> <<>>]
    /\ deleteLog = <<>>
    /\ deletesInFlight = 0

\* the head of the for-of loop once idx names have been dealt with: the next
\* delete request, or the return of the result
BulkLoopHead(names, idx, log) ==
    IF idx < Len(names)
      THEN /\ bulkPc' = "deleting"
           /\ deleteLog' = Append(log, names[idx + 1])
           /\ deletesInFlight' = 1
      ELSE /\ bulkPc' = "returned"
           /\ deleteLog' = log
           /\ deletesInFlight' = 0

\* bulkDeleteDocuments(names) is called
BulkCall(names) ==
    /\ bulkPc \in {"idle", "returned"}
    /\ documentNames' = names
    /\ bulkIdx' = 0
    /\ bulkResult' = [success |-> <<>>, failed |-> <<>>]
    /\ BulkLoopHead(names, 0, <<>>)
    /\ UNCHANGED notBulkVars

\* apiClient.delete resolves: the name goes to success
DeleteResolve ==
    /\ bulkPc = "deleting"
    /\ bulkResult' = [bulkResult EXCEPT !.success = Append(@, documentNames[bulkIdx + 1])]
    /\ bulkIdx' = bulkIdx + 1
    /\ BulkLoopHead(documentNames, bulkIdx + 1, deleteLog)
    /\ UNCHANGED documentNames
    /\ UNCHANGED notBulkVars

\* apiClient.delete rejects without the loop going on
DeleteRejectAborts(message) ==
    /\ bulkPc = "deleting"
    /\ bulkResult' = [bulkResult EXCEPT
          !.failed = Append(@, [name |-> documentNames[bulkIdx + 1], error |-> message])]
    /\ bulkIdx' = bulkIdx + 1
    /\ BulkLoopHead(documentNames, Len(documentNames), deleteLog)
    /\ UNCHANGED documentNames
    /\ UNCHANGED notBulkVars

\* apiClient.delete rejects: the name and the message go to failed
DeleteReject(message) ==
    /\ bulkPc = "deleting"
    /\ bulkResult' = [bulkResult EXCEPT
          !.failed = Append(@, [name |-> documentNames[bulkIdx + 1], error |-> message])]
    /\ bulkIdx' = bulkIdx + 1
    /\ BulkLoopHead(documentNames, bulkIdx + 1, deleteLog)
    /\ UNCHANGED documentNames
    /\ UNCHANGED notBulkVars

\* ==================================== documentManagementService: pure functions
\* the value undefined where a string can stand (a string is a sequence of characters)
undefined == <<"undefined">>
NA == <<"N", "/", "A">>
NotesPlaceholder == <<"-">>
NoFields == [version |-> NA, notes |-> NotesPlaceholder, category |-> undefined, tags |-> <<>>]

\* no function has been called
DocRest ==
    /\ doc = [name |-> "d1"]
    /\ managed = NoFields
    /\ v1 = <<>>
    /\ v2 = <<>>
    /\ compared = 0
    /\ documents = <<>>
    /\ currentDoc = 0
    /\ sortOrder = "asc"
    /\ newer = FALSE
    /\ filtered = <<>>

DocIdle == docPc = "args" /\ DocRest

\* ---------------------------------------------------- enrichDocumentMetadata
\* most metadata entries of one document
MaxMeta == 2
MetaKeys == {"version", "notes", "category", "tags", "site"}
\* string values: '', 'a', and 'b, c'
MetaValues == {<<>>, <<"a">>, <<"b", ",", " ", "c">>}
MetadataLists ==
    UNION {[1..k -> [key : MetaKeys, stringValue : MetaValues]] : k \in 0..MaxMeta}
\* documents of the backend, with customMetadata or without
BackendDocs ==
    {[name |-> "d1"]} \cup [name : {"d1"}, customMetadata : MetadataLists]

\* Array.prototype.find from the end of the list; no entry for undefined
RECURSIVE FindLast(_, _)
FindLast(list, key) ==
    IF list = <<>> THEN <<>>
    ELSE IF list[Len(list)].key = key THEN <<list[Len(list)]>>
         ELSE FindLast(SubSeq(list, 1, Len(list) - 1), key)

\* list.find(m => m.key === key); no entry for undefined
RECURSIVE Find(_, _)
Find(list, key) ==
    IF list = <<>> THEN <<>>
    ELSE IF Head(list).key = key THEN <<Head(list)>>
         ELSE Find(Tail(list), key)

\* doc.customMetadata?.find(m => m.key === key)?.stringValue
StringValueOf(d, key) ==
    IF "customMetadata" \notin DOMAIN d THEN undefined
    ELSE IF Find(d.customMetadata, key) = <<>> THEN undefined
         ELSE Find(d.customMetadata, key)[1].stringValue

\* String.prototype.split(',')
RECURSIVE Split(_, _)
Split(text, piece) ==
    IF text = <<>> THEN <<piece>>
    ELSE IF Head(text) = "," THEN <<piece>> \o Split(Tail(text), <<>>)
         ELSE Split(Tail(text), Append(piece, Head(text)))

\* whether a string value is falsy: undefined or ''
Falsy(value) == value = undefined \/ value = <<>>

\* the fields enrichDocumentMetadata derives from the metadata
EnrichDocumentMetadata(d) ==
    LET version == StringValueOf(d, "version")
        notes == StringValueOf(d, "notes")
        tags == StringValueOf(d, "tags")
        parts == Split(tags, <<>>)
    IN  [version |-> IF Falsy(version) THEN NA ELSE version,
         notes |-> IF Falsy(notes) THEN NotesPlaceholder ELSE notes,
         category |-> StringValueOf(d, "category"),
         tags |-> IF Falsy(tags) THEN <<>> ELSE [k \in DOMAIN parts |-> Trim(parts[k])]]

\* documents.map(doc => enrichDocumentMetadata(doc)), one document
Enrich ==
    /\ docPc = "args"
    /\ docPc' = "result"
    /\ managed' = EnrichDocumentMetadata(doc)
    /\ UNCHANGED <<doc, v1, v2, compared, documents, currentDoc, sortOrder, newer, filtered>>
    /\ UNCHANGED notDocVars

\* ================================================================= createBlob
\* a sample is a multiple of 1/SampleSteps in [-1, 1]; most samples of one frame
SampleSteps == 6
MaxSamples == 2

PcmIdle == pcmPc = "args" /\ data = <<>> /\ int16 = <<>>

\* the upload forms, the bulk delete and the pure functions at rest
OthersIdle == FormIdle /\ BulkIdle /\ DocIdle /\ PcmIdle

\* every other workflow at rest
RestIdle == PollIdle /\ UploadIdle /\ StoreIdle /\ LiveIdle /\ FormIdle /\ BulkIdle /\ PcmIdle

InitEnrich ==
    /\ RestIdle
    /\ docPc = "args"
    /\ doc \in BackendDocs
    /\ managed = NoFields
    /\ v1 = <<>>
    /\ v2 = <<>>
    /\ compared = 0
    /\ documents = <<>>
    /\ currentDoc = 0
    /\ sortOrder = "asc"
    /\ newer = FALSE
    /\ filtered = <<>>

NextEnrich == Enrich

SpecEnrich == InitEnrich /\ [][NextEnrich]_vars

\* ------------------------------------------------------------ compareVersions
\* longest version string compared, in characters
MaxVersionChars == 3
\* the versions of the examples
Examples == {<<"2", ".", "1", ".", "0">>, <<"2", ".", "1">>, <<"1", ".", "0", ".", "0">>}
\* the versions of documents: dotted-numeric strings and 'N/A'
Versions ==
    {v \in UNION {[1..k -> Digits \cup {"."}] : k \in 1..MaxVersionChars} : VersionPattern(v)}
      \cup Examples \cup {NA}

DigitValue(c) == CASE c = "0" -> 0 [] c = "1" -> 1 [] c = "2" -> 2

\* parseInt(text) || 0: the value of the leading digits, 0 when there is none
RECURSIVE ParseIntFrom(_, _)
ParseIntFrom(text, value) ==
    IF text = <<>> \/ Head(text) \notin Digits THEN value
    ELSE ParseIntFrom(Tail(text), 10 * value + DigitValue(Head(text)))
ParseIntOrZero(text) == ParseIntFrom(text, 0)

\* String.prototype.split('.')
RECURSIVE SplitDots(_, _)
SplitDots(text, piece) ==
    IF text = <<>> THEN <<piece>>
    ELSE IF Head(text) = "." THEN <<piece>> \o SplitDots(Tail(text), <<>>)
         ELSE SplitDots(Tail(text), Append(piece, Head(text)))

\* v.split('.').map(n => parseInt(n) || 0)
Parts(v) == [k \in DOMAIN SplitDots(v, <<>>) |-> ParseIntOrZero(SplitDots(v, <<>>)[k])]

\* parts[i] || 0, i counted from 1
PartAt(parts, k) == IF k \in DOMAIN parts THEN parts[k] ELSE 0

\* the for loop of compareVersions from position k
RECURSIVE CompareFrom(_, _, _)
CompareFrom(parts1, parts2, k) ==
    IF k > Max(Len(parts1), Len(parts2)) THEN 0
    ELSE IF PartAt(parts1, k) # PartAt(parts2, k)
           THEN PartAt(parts1, k) - PartAt(parts2, k)
           ELSE CompareFrom(parts1, parts2, k + 1)

\* compareVersions where the version with more components wins a tie
CompareVersionsLongerWins(a, b) ==
    IF a = NA THEN -1
    ELSE IF b = NA THEN 1
    ELSE IF CompareFrom(Parts(a), Parts(b), 1) # 0 THEN CompareFrom(Parts(a), Parts(b), 1)
    ELSE Len(Parts(a)) - Len(Parts(b))

\* compareVersions(a, b)
CompareVersions(a, b) ==
    IF a = NA THEN -1
    ELSE IF b = NA THEN 1
    ELSE CompareFrom(Parts(a), Parts(b), 1)

\* one call of compareVersions
Compare ==
    /\ docPc = "args"
    /\ docPc' = "result"
    /\ compared' = CompareVersions(v1, v2)
    /\ UNCHANGED <<doc, managed, v1, v2, documents, currentDoc, sortOrder, newer, filtered>>
    /\ UNCHANGED notDocVars

InitCompare ==
    /\ RestIdle
    /\ docPc = "args"
    /\ doc = [name |-> "d1"]
    /\ managed = NoFields
    /\ v1 \in Versions
    /\ v2 \in Versions
    /\ compared = 0
    /\ documents = <<>>
    /\ currentDoc = 0
    /\ sortOrder = "asc"
    /\ newer = FALSE
    /\ filtered = <<>>

NextCompare == Compare

SpecCompare == InitCompare /\ [][NextCompare]_vars

\* ------------------------------------- getDocumentVersions, hasNewerVersion
\* most documents of one list
MaxListed == 3
\* display names: 'a', 'A v1', 'b'
DisplayNames == {<<"a">>, <<"A", " ", "v", "1">>, <<"b">>}
\* versions of the listed documents: 'N/A', '1', '1.0', '2', '10'
ListedVersions == {NA, <<"1">>, <<"1", ".", "0">>, <<"2">>, <<"1", "0">>}
\* the k-th document of a list has the name k
DocLists ==
    UNION {{list \in [1..n -> [name : 1..n, displayName : DisplayNames,
                               version : ListedVersions]] :
               \A k \in 1..n : list[k].name = k} : n \in 1..MaxListed}

\* String.prototype.toLowerCase
ToLowerCase(text) == [k \in DOMAIN text |-> IF text[k] = "A" THEN "a" ELSE text[k]]

\* whether the whole text matches \s*v?\d+(\.\d+)*
IsVersionSuffix(text) ==
    LET rest == TrimStart(text)
    IN  IF rest # <<>> /\ Head(rest) = "v" THEN VersionPattern(Tail(rest))
        ELSE VersionPattern(rest)

\* name.toLowerCase().replace(/\s*v?\d+(\.\d+)*$/i, ''): the leftmost suffix
\* that matches is removed
BaseName(name) ==
    LET lower == ToLowerCase(name)
        starts == {k \in DOMAIN lower : IsVersionSuffix(SubSeq(lower, k, Len(lower)))}
    IN  IF starts = {} THEN lower
        ELSE SubSeq(lower, 1, (CHOOSE k \in starts : \A j \in starts : k <= j) - 1)

\* whether a comparator is consistent on the elements of a list; c[j][k] is what
\* the comparator returns for the elements j and k
Consistent(c) ==
    \A j, k \in DOMAIN c :
       j # k =>
         /\ c[j][k] < 0 <=> c[k][j] > 0
         /\ c[j][k] = 0 <=> c[k][j] = 0
         /\ \A m \in DOMAIN c :
               /\ c[j][k] <= 0 /\ c[k][m] <= 0 => c[j][m] <= 0
               /\ c[j][k] = 0 /\ c[k][m] = 0 => c[j][m] = 0

Permutations1(n) == {f \in [1..n -> 1..n] : \A j, k \in 1..n : j # k => f[j] # f[k]}

\* Array.prototype.sort with the comparator c: the sort is stable; with a
\* comparator that is not consistent the order is implementation-defined
SortOutcomes(list, c) ==
    {[k \in DOMAIN list |-> list[f[k]]] : f \in
        {f \in Permutations1(Len(list)) :
            Consistent(c) =>
               \A j, k \in DOMAIN list :
                  j < k =>
                    /\ c[f[j]][f[k]] <= 0
                    /\ c[f[j]][f[k]] = 0 => f[j] < f[k]}}

\* the comparator of getDocumentVersions: by version, descending
NewestFirst(a, b) == CompareVersions(b.version, a.version)

\* documents.filter(doc => base name of doc === base name of baseName)
SameBaseName(list, baseName) ==
    SelectSeq(list, LAMBDA d : BaseName(d.displayName) = BaseName(baseName))

\* the results getDocumentVersions can give
GetDocumentVersions(list, baseName) ==
    LET same == SameBaseName(list, baseName)
    IN  SortOutcomes(same,
           [j \in DOMAIN same |-> [k \in DOMAIN same |-> NewestFirst(same[j], same[k])]])

\* hasNewerVersion(documents, documents[currentDoc])
HasNewerVersion ==
    /\ docPc = "args"
    /\ docPc' = "result"
    /\ \E versions \in GetDocumentVersions(documents, documents[currentDoc].displayName) :
          newer' = (Len(versions) > 0 /\ versions[1].name # documents[currentDoc].name)
    /\ UNCHANGED <<doc, managed, v1, v2, compared, documents, currentDoc, sortOrder,
                   filtered>>
    /\ UNCHANGED notDocVars

InitNewer ==
    /\ RestIdle
    /\ docPc = "args"
    /\ doc = [name |-> "d1"]
    /\ managed = NoFields
    /\ v1 = <<>>
    /\ v2 = <<>>
    /\ compared = 0
    /\ documents \in DocLists
    /\ currentDoc \in DOMAIN documents
    /\ sortOrder = "asc"
    /\ newer = FALSE
    /\ filtered = <<>>

NextNewer == HasNewerVersion

SpecNewer == InitNewer /\ [][NextNewer]_vars

\* ------------------------------------------------ filterDocuments: sorting
\* String.prototype.charCodeAt for the characters of the versions
CharCode(c) ==
    CASE c = "." -> 46 [] c = "/" -> 47 [] c = "0" -> 48 [] c = "1" -> 49
      [] c = "2" -> 50 [] c = "A" -> 65 [] c = "N" -> 78

\* a < b on strings: by code units from the left, a proper prefix being smaller
RECURSIVE StringLess(_, _)
StringLess(a, b) ==
    IF b = <<>> THEN FALSE
    ELSE IF a = <<>> THEN TRUE
    ELSE IF CharCode(Head(a)) # CharCode(Head(b)) THEN CharCode(Head(a)) < CharCode(Head(b))
    ELSE StringLess(Tail(a), Tail(b))

\* the comparator of filterDocuments for sortBy 'version'
ByVersion(a, b) ==
    IF StringLess(a.version, b.version) THEN (IF sortOrder = "asc" THEN -1 ELSE 1)
    ELSE IF StringLess(b.version, a.version) THEN (IF sortOrder = "asc" THEN 1 ELSE -1)
    ELSE 0

\* filterDocuments(documents, {sortBy: 'version', sortOrder})
FilterDocuments ==
    /\ docPc = "args"
    /\ docPc' = "result"
    /\ filtered' \in SortOutcomes(documents,
          [j \in DOMAIN documents |->
             [k \in DOMAIN documents |-> ByVersion(documents[j], documents[k])]])
    /\ UNCHANGED <<doc, managed, v1, v2, compared, documents, currentDoc, sortOrder, newer>>
    /\ UNCHANGED notDocVars

InitFilter ==
    /\ RestIdle
    /\ docPc = "args"
    /\ doc = [name |-> "d1"]
    /\ managed = NoFields
    /\ v1 = <<>>
    /\ v2 = <<>>
    /\ compared = 0
    /\ documents \in DocLists
    /\ currentDoc = 0
    /\ sortOrder \in {"asc", "desc"}
    /\ newer = FALSE
    /\ filtered = <<>>

NextFilter == FilterDocuments

SpecFilter == InitFilter /\ [][NextFilter]_vars

\* ----------------------------------------------------- createBlob: encoding
Frames == UNION {[1..n -> (-SampleSteps)..SampleSteps] : n \in 0..MaxSamples}

\* the integer part of (steps / SampleSteps) * 32768, rounded towards zero
Truncated(steps) ==
    IF steps >= 0 THEN (steps * 32768) \div SampleSteps
    ELSE -(((-steps) * 32768) \div SampleSteps)

\* storing a number in an Int16Array: modulo 2^16, read as a signed value
ToInt16(n) == IF n % 65536 >= 32768 THEN (n % 65536) - 65536 ELSE n % 65536

\* int16[i] = data[i] * 32768, for every i
CreateBlob ==
    /\ pcmPc = "args"
    /\ pcmPc' = "result"
    /\ int16' = [k \in DOMAIN data |-> ToInt16(Truncated(data[k]))]
    /\ UNCHANGED data
    /\ UNCHANGED notPcmVars

InitPcm ==
    /\ PollIdle /\ UploadIdle /\ StoreIdle /\ LiveIdle /\ FormIdle /\ BulkIdle /\ DocIdle
    /\ pcmPc = "args"
    /\ data \in Frames
    /\ int16 = <<>>

NextPcm == CreateBlob

SpecPcm == InitPcm /\ [][NextPcm]_vars

\* ------------------------------------------------ live session specifications
InitLive ==
    /\ PollIdle /\ StoreIdle /\ UploadIdleState /\ aistudio \in BOOLEAN
    /\ LiveIdle /\ OthersIdle

NextLive ==
    \/ LiveStart
    \/ LiveStop
    \/ Unmount
    \/ \E r \in Runs :
          \/ LiveHasKeyReply(r)
          \/ LiveSelectKeyResolve(r)
          \/ LiveSelectKeyReject(r)
          \/ MediaResolve(r)
          \/ MediaReject(r)
          \/ SessionOpen(r)
          \/ SessionError(r)
          \/ SessionClose(r)
          \/ \E msg \in ChunkMessages : OnMessage(r, msg)
    \/ \E j \in 1..MaxChunks : SourceEnded(j)

SpecLive == InitLive /\ [][NextLive]_vars

\* a session that is open: run 1 has started, its channel has opened
ActiveSession ==
    /\ liveStatus = "active"
    /\ statusMessage = "Listening..."
    /\ transcripts = <<>>
    /\ currentInputTranscription = <<>>
    /\ currentOutputTranscription = <<>>
    /\ sessionPromiseRef = 1
    /\ inputAudioContextRef = 1
    /\ outputAudioContextRef = 1
    /\ mediaStreamRef = 1
    /\ scriptProcessorRef = 1
    /\ nextStartTimeRef = 0
    /\ sourcesRef = {}
    /\ mounted = TRUE
    /\ startPc = [r \in Runs |-> IF r = 1 THEN "over" ELSE "unused"]
    /\ session = [r \in Runs |-> IF r = 1 THEN "open" ELSE "none"]
    /\ created = [k \in Kinds |-> [r \in Runs |-> r = 1]]
    /\ released = [k \in Kinds |-> [r \in Runs |-> 0]]
    /\ sources = <<>>
    /\ clock = 0
    /\ liveReported = null
    /\ lastEnd = "none"
    /\ teardowns = 0

InitSession == PollIdle /\ StoreIdle /\ UploadIdle /\ ActiveSession /\ OthersIdle

\* playback: audio chunks and interrupts arrive while the output time advances
NextPlayback ==
    \/ \E msg \in AudioMessages : OnMessage(1, msg)
    \/ \E j \in 1..MaxChunks : SourceEnded(j)
    \/ Tick

SpecPlayback == InitSession /\ [][NextPlayback]_vars

\* transcription: fragments of both speakers and turn ends arrive
NextTranscript == \E msg \in TranscriptMessages : OnMessage(1, msg)

SpecTranscript == InitSession /\ [][NextTranscript]_vars

\* ------------------------------------------------------ upload form specification
InitForms == PollIdle /\ UploadIdle /\ StoreIdle /\ LiveIdle /\ OthersIdle

NextForms ==
    \/ \E version \in Strings(MaxVersionLen), category, tags \in BOOLEAN :
          HandleSubmit(version, category, tags)
    \/ SubmitSettle
    \/ \E versionNumber \in Strings(MaxVersionLen), changeNotes \in BOOLEAN,
          customMetadata \in UNION {[1..k -> RowKeys] : k \in 0..MaxRows} :
          HandleConfirmUpload(versionNumber, changeNotes, customMetadata)
    \/ ConfirmSettle
    \/ \E versionNumber \in Strings(MaxVersionLen) : VersionHandleUpload(versionNumber)
    \/ VersionSettle

SpecForms == InitForms /\ [][NextForms]_vars

\* ------------------------------------------------------ bulk delete specification
InitBulk == PollIdle /\ UploadIdle /\ StoreIdle /\ LiveIdle /\ OthersIdle

NextBulk ==
    \/ \E names \in Selections : BulkCall(names)
    \/ DeleteResolve
    \/ \E message \in DeleteErrors : DeleteReject(message)

SpecBulk == InitBulk /\ [][NextBulk]_vars

\* -------------------------------------------------------- store specification
InitStore == PollIdle /\ UploadIdle /\ StoreIdle /\ LiveIdle /\ OthersIdle

NextStore ==
    \/ \E l \in Loaders :
          \/ StartLoad(l)
          \/ ListResolve(l)
          \/ LoadReject(l)
          \/ CreateResolve(l)
          \/ RelistResolve(l)
          \/ DocsResolve(l)
          \/ DocUploadResolve(l)
    \/ HandleUpload
    \/ DocUploadReject

SpecStore == InitStore /\ [][NextStore]_vars

\* ------------------------------------------------------- upload specification
InitUpload ==
    /\ PollIdle
    /\ StoreIdle
    /\ UploadIdleState
    /\ aistudio \in BOOLEAN
    /\ LiveIdle
    /\ OthersIdle

\* the steps the user takes
UploadUserSteps == SelectFiles \/ ClickUpload

\* the steps the runtime and the backend take
UploadProgramSteps ==
    \/ Mount
    \/ HasKeyReply
    \/ SelectKeyResolve
    \/ SelectKeyReject
    \/ CreateStoreResolve
    \/ CreateStoreReject
    \/ UploadRequestResolve
    \/ UploadRequestReject
    \/ UploadDelayTimer
    \/ UploadGetResolve
    \/ UploadGetReject
    \/ SettleTimer

NextUpload == UploadUserSteps \/ UploadProgramSteps

SpecUpload == InitUpload /\ [][NextUpload]_vars

\* the chat: uploads, messages and their answers, and the end of the chat
NextChat ==
    \/ NextUpload
    \/ HandleEndChat
    \/ HandleSendMessage
    \/ QueryResolve
    \/ QueryReject

SpecChat == InitUpload /\ [][NextChat]_vars

\* every timer fires and every request is answered
FairSpecUpload == SpecUpload /\ WF_vars(UploadProgramSteps)

\* ------------------------------------------------------- poller specification
InitPoll == PollIdle /\ UploadIdle /\ StoreIdle /\ LiveIdle /\ OthersIdle

NextPoll == PollCall \/ PollCheckReply \/ PollCheckReject \/ PollTimer

SpecPoll == InitPoll /\ [][NextPoll]_vars

FairSpecPoll == SpecPoll /\ WF_vars(NextPoll)

\* ================================================================== claims

\* ---- pollOperationUntilComplete
NotDoneReply(o) == ~o.done /\ o.error = null
AllNotDone == \A k \in 1..Len(pollReplies) : NotDoneReply(pollReplies[k])
PollTerminated == pollPc \in {"returned", "failed", "timeout"}
LastReply == pollReplies[Len(pollReplies)]

\* the replies so far: not done N-1 times, then done with a response and no error
DoneAtLastReply ==
    /\ Len(pollReplies) >= 1
    /\ \A k \in 1..(Len(pollReplies) - 1) : NotDoneReply(pollReplies[k])
    /\ LastReply.done
    /\ LastReply.error = null
    /\ LastReply.response # null

\* C1: when the status check answers done=false N-1 times and then done=true
\* with a response and no error (N <= maxAttempts), the poller has returned
\* that response after exactly N checks and N-1 interval waits; a check in
\* flight is always alone and is always preceded by one wait per earlier
\* check; no check follows the N-th.
C1_PollReturnsAtFirstDone ==
    /\ checksInFlight \in {0, 1}
    /\ pollPc = "checking" => (checksInFlight = 1 /\ waitsDone = checksIssued - 1)
    /\ pollClock = waitsDone * intervalMs
    /\ (DoneAtLastReply /\ Len(pollReplies) <= maxAttempts) =>
          /\ pollPc = "returned"
          /\ pollResult = LastReply.response
          /\ checksIssued = Len(pollReplies)
          /\ waitsDone = Len(pollReplies) - 1
          /\ checksInFlight = 0

C1_Witness ==
    /\ pollPc = "returned"
    /\ Len(pollReplies) = 2
    /\ maxAttempts = MaxAttemptsBound
    /\ DoneAtLastReply

\* C2: when the status check never answers done=true and never throws, the
\* poller ends, and it ends with the timeout error after exactly maxAttempts
\* checks, for every maxAttempts >= 0.
C2_PollTimesOutAfterMaxAttempts ==
    /\ [](AllNotDone => checksIssued <= maxAttempts)
    /\ []((PollTerminated /\ AllNotDone) =>
             /\ pollPc = "timeout"
             /\ pollError = "Operation timed out - max polling attempts reached"
             /\ checksIssued = maxAttempts
             /\ Len(pollReplies) = maxAttempts)
    /\ [](pollPc = "timeout" => AllNotDone)
    /\ <>PollTerminated

C2_Witness ==
    /\ pollPc = "timeout"
    /\ maxAttempts = MaxAttemptsBound
    /\ Len(pollReplies) = MaxAttemptsBound

\* the poller's half of C3: an operation done with an error makes the poller
\* throw the backend's error payload and return no response
PollOperationErrorFails ==
    (Len(pollReplies) >= 1 /\ LastReply.done /\ LastReply.error # null) =>
        (pollPc = "failed" /\ pollError = LastReply.error /\ pollResult = null)

\* ---- handleUploadAndStartChat and uploadToRagStore
\* C3: an upload whose operation was seen done with an error ends in a
\* failure that carries the backend's error payload, and is never taken as
\* succeeded.
C3_OperationErrorFailsUpload ==
    lastUpload.opError # null =>
        (lastUpload.outcome = "rejected" /\ lastUpload.error = lastUpload.opError)

\* C4: the upload of a file ends (with success, failure or timeout) even when
\* the backend's operation never reports done=true.
C4_UploadEnds == (upFnPc # "none") ~> (upFnPc = "none")

\* C5: the uploads of a batch are called in array order, one at a time, each
\* after the one before it has resolved and all after createRagStore has
\* returned, to the store it returned.
C5_UploadsInOrderOneAtATime ==
    /\ uploadsInFlight \in {0, 1}
    /\ (uploadsInFlight = 1) <=> (upFnPc # "none")
    /\ upPc \in {"hasKey", "selectKey", "createStore"} => issued = <<>>
    /\ \A j \in 1..Len(issued) :
          /\ issued[j].file = j
          /\ issued[j].store = ragStoreName
          /\ ragStoreName \in StoreNames
    /\ Len(issued) <= i + 1
    /\ uploadsInFlight = 1 => Len(issued) = i + 1

C5_Witness ==
    /\ files = MaxFiles
    /\ Len(issued) = MaxFiles
    /\ uploadsInFlight = 1

\* C6: once the upload of file k has failed, no upload of a later file is
\* called, file k is not called again, and the session is not chatting.
C6_FailFast ==
    failedAt > 0 =>
        /\ Len(issued) = failedAt
        /\ \A j \in 1..Len(issued) : issued[j].file = j
        /\ uploadsInFlight = 0
        /\ upFnPc = "none"
        /\ upPc = "idle"
        /\ status = "Welcome"

C6_Witness == failedAt = 2 /\ files = MaxFiles /\ Len(issued) = 2

\* what happened to file j of a batch whose file failedAt failed
ActualOutcome(j) ==
    IF j < failedAt THEN "succeeded"
    ELSE IF j = failedAt THEN "failed" ELSE "not attempted"

\* what the handler delivers: the arguments of handleError and the rejection
DeliveredResult ==
    [message |-> handleErrorCalls[Len(handleErrorCalls)].message, error |-> settled.error]
DeliveredOutcome(j) ==
    IF "outcomes" \in DOMAIN DeliveredResult THEN "reported" ELSE "not reported"

\* C7 as stated: when a file fails, the delivered result tells each file's
\* outcome (succeeded before the failing file, failed, not attempted after).
C7_PerFileOutcomesDelivered ==
    failedAt > 0 =>
        \A j \in 1..failedAt : DeliveredOutcome(j) = ActualOutcome(j)

\* C7 as amended: when a file fails, the caller gets one aggregate failure:
\* handleError is called once with "Failed to start chat session" and the
\* error the failing upload threw, the handler's promise rejects with that
\* error, the progress is cleared and the welcome screen is back; the files
\* before the failing one were uploaded, the later ones were never called,
\* and none of this is part of the result.
C7_AggregateFailureDelivered ==
    failedAt > 0 =>
        /\ lastUpload.file = failedAt
        /\ lastUpload.outcome = "rejected"
        /\ handleErrorCalls =
              <<[message |-> "Failed to start chat session", err |-> lastUpload.error]>>
        /\ settled = [state |-> "rejected", error |-> lastUpload.error]
        /\ DOMAIN DeliveredResult = {"message", "error"}
        /\ uploadProgress = NoProgress
        /\ i = failedAt - 1
        /\ Len(issued) = failedAt

C7_Witness ==
    /\ failedAt = 2
    /\ settled.state = "rejected"
    /\ Len(handleErrorCalls) = 1
    /\ i = 1

\* the first half of C8: the progress shown never goes down within a batch
ProgressNeverDecreases ==
    [][(uploadProgress # NoProgress /\ uploadProgress' # NoProgress)
          => uploadProgress'.current >= uploadProgress.current]_vars

\* C8: the progress shown is 100 only after every file of the batch has been
\* uploaded, for every batch size.
C8_FullProgressOnlyWhenAllUploaded ==
    uploadProgress.current = totalProgress =>
        (i = files /\ upFnPc = "none" /\ upPc = "settle")

\* C9 as stated: with 3 files the progress shown once file 1 has been uploaded
\* is 5 + floor(95/3) = 36, and 100 once all 3 have been.
C9_ProgressFloorOfShare ==
    /\ (files = 3 /\ upPc = "upload" /\ i = 1) =>
          uploadProgress.current = storeCreationWeight + (embeddingWeight \div 3)
    /\ (files = 3 /\ upPc = "settle") => uploadProgress.current = totalProgress

\* C9 as amended: with 3 files the progress shown once file 1 has been
\* uploaded is Math.round(5 + 95/3) = 37, and 100 once all 3 have been.
C9_ProgressRoundOfShare ==
    /\ (files = 3 /\ upPc = "upload" /\ i = 1) => uploadProgress.current = 37
    /\ (files = 3 /\ upPc = "settle") => (i = 3 /\ uploadProgress.current = totalProgress)

C9_Witness ==
    /\ files = 3
    /\ upPc = "upload"
    /\ i = 1
    /\ uploadProgress.current = 37

\* ---- DocumentManager
\* C10: every request that names a store names it as the backend returned it.
C10_StoreNamesVerbatim ==
    \A r \in storeRequests : r.name \in returnedNames

\* C11: a run of ensureUserStore that starts after an earlier run has completed
\* finds the store in the list it gets and issues no create request.
C11_SequentialEnsureCreatesNothing ==
    \A l \in Loaders : loadAfterEnsure[l] => loadPc[l] \notin {"create", "relist"}

\* ---- LiveDemoView
\* nothing of a session is held: every resource made has been stopped, disconnected
\* or closed (the channel: asked to close, or closed by the other side), and no
\* source is scheduled
NothingHeld ==
    /\ \A k \in Kinds \ {"session"} : \A r \in Runs :
          created[k][r] => released[k][r] >= 1
    /\ \A r \in Runs :
          created["session"][r] => released["session"][r] >= 1 \/ session[r] = "closed"
    /\ sourcesRef = {}

\* C12: while the component is mounted, a session ended by a channel error or by
\* a failure of the start shows the status error until the next user start, a
\* session ended by the user's stop shows the status idle, and in both cases
\* nothing of the session is held any more.
C12_EndStates ==
    mounted =>
       /\ lastEnd \in {"error", "startFailure"} => liveStatus = "error"
       /\ lastEnd = "stop" => liveStatus = "idle"
       /\ lastEnd \in {"error", "startFailure", "stop"} => NothingHeld

\* C13: no track, processor, audio context, channel or source is stopped or closed
\* more than once, and a handleEndDemo call that follows another one (whatever
\* triggered them, a session started or not) changes nothing of the component.
C13_TeardownIdempotent ==
    /\ [](/\ \A k \in Kinds : \A r \in Runs : released[k][r] <= 1
          /\ \A j \in DOMAIN sources : sources[j].stops <= 1)
    /\ [][(teardowns >= 1 /\ teardowns' = 2) =>
             UNCHANGED <<liveUi, liveRefs, liveText, livePlay, created, released>>]_vars

\* a session was started and used, and handleEndDemo has run twice in a row
C13_Witness ==
    /\ teardowns = 2
    /\ \E r \in Runs :
          /\ \A k \in Kinds : created[k][r] /\ released[k][r] = 1
          /\ \E j \in DOMAIN sources : sources[j].stops = 1

\* C14: whenever the status is idle or error after a teardown, nothing of a
\* session is held.
C14_NothingHeldOutsideSession ==
    (liveStatus \in {"idle", "error"} /\ lastEnd # "none") => NothingHeld

\* the time at which a source has played its buffer
EndOf(j) == sources[j].start + sources[j].duration

\* no interrupt was handled between the making of source j and that of source k
Chained(j, k) == \A n \in (j + 1)..k : sources[n].follows = n - 1

\* C15: a chunk is started at the later of the output time at its arrival and the
\* end of the chunk before it, and nextStartTime is then the end of the chunk;
\* the playback intervals of chunks with no interrupt between them never overlap,
\* and a chunk that arrives before the chunk before it has finished starts
\* exactly at that chunk's start plus its duration.
C15_PlaybackNeverOverlaps ==
    /\ \A k \in DOMAIN sources :
          /\ sources[k].start >= sources[k].arrived
          /\ sources[k].follows # 0 =>
                /\ sources[k].start =
                      Max(sources[k].arrived, EndOf(sources[k].follows))
                /\ sources[k].arrived < EndOf(sources[k].follows) =>
                      sources[k].start = EndOf(sources[k].follows)
    /\ \A j, k \in DOMAIN sources :
          (j < k /\ Chained(j, k)) => sources[k].start >= EndOf(j)
    /\ (Len(sources) > 0 /\ ~sources[Len(sources)].cut) =>
          nextStartTimeRef = EndOf(Len(sources))

\* a chunk arrived later than the one before it and before that one had finished
C15_Witness ==
    \E k \in DOMAIN sources :
       /\ sources[k].follows = k - 1
       /\ k > 1
       /\ sources[k].arrived > sources[k - 1].arrived
       /\ sources[k].arrived < EndOf(k - 1)
       /\ sources[k].start = EndOf(k - 1)

\* C16: once an interrupted signal has been handled, every source scheduled before
\* it has been stopped (unless it had played to its end), the set of sources is
\* empty and nextStartTime is 0; the next chunk starts at the output time of its
\* arrival.
C16_InterruptClearsPlayback ==
    /\ \A j \in DOMAIN sources :
          sources[j].cut =>
             /\ sources[j].stops = 1 \/ sources[j].ended
             /\ j \notin sourcesRef
    /\ (Len(sources) > 0 /\ sources[Len(sources)].cut) =>
          /\ sourcesRef = {}
          /\ nextStartTimeRef = 0
    /\ \A k \in DOMAIN sources :
          (k > 1 /\ sources[k].follows = 0) => sources[k].start = sources[k].arrived

\* a chunk was stopped by an interrupt while it played, and the next chunk started
\* at once
C16_Witness ==
    \E k \in DOMAIN sources :
       /\ k > 1
       /\ sources[k - 1].cut
       /\ sources[k - 1].stops = 1
       /\ sources[k].follows = 0
       /\ sources[k].start = sources[k].arrived
       /\ sources[k].start < EndOf(k - 1)
       /\ sources[k].start > sources[k - 1].start

\* the entries of a speaker that are not final
NonFinal(speaker) ==
    {k \in DOMAIN transcripts :
        transcripts[k].speaker = speaker /\ ~transcripts[k].isFinal}

\* C17: whatever the order in which the fragments of the user and of the model
\* arrive, the transcript holds at most one entry per speaker that is not final.
C17_OneOpenEntryPerSpeaker ==
    \A speaker \in {"user", "model"} : Cardinality(NonFinal(speaker)) <= 1

\* C18: once a turn-complete signal has been handled (both accumulators are empty
\* again), no entry of the transcript is left that is not final.
C18_TurnCompleteFinalizesAll ==
    (currentInputTranscription = <<>> /\ currentOutputTranscription = <<>>) =>
       \A k \in DOMAIN transcripts : transcripts[k].isFinal

\* C19: no upload request is sent with metadata that fails validateDocumentMetadata
\* (no version key, a version that is not dotted-numeric, or a key given twice),
\* whichever form sends it.
C19_NoInvalidMetadataSent == lastSent # <<>> => Valid(lastSent)

\* the names of the failed list
FailedNames == [k \in DOMAIN bulkResult.failed |-> bulkResult.failed[k].name]
Occurrences(seq, name) == Cardinality({k \in DOMAIN seq : seq[k] = name})

\* C20: bulkDeleteDocuments requests the deletes in input order and one at a time,
\* goes on after a failed delete, ends by returning (it has no other way out), and
\* returns a summary in which every input name is in exactly one of success and
\* failed, once.
C20_BulkDeleteSummary ==
    /\ bulkPc \in {"idle", "deleting", "returned"}
    /\ deletesInFlight <= 1
    /\ Len(deleteLog) <= Len(documentNames)
    /\ deleteLog = SubSeq(documentNames, 1, Len(deleteLog))
    /\ bulkPc = "deleting" => deletesInFlight = 1 /\ Len(deleteLog) = bulkIdx + 1
    /\ bulkPc = "returned" =>
          /\ deletesInFlight = 0
          /\ deleteLog = documentNames
          /\ \A k \in DOMAIN documentNames :
                Occurrences(bulkResult.success, documentNames[k])
                  + Occurrences(FailedNames, documentNames[k]) = 1
          /\ Len(bulkResult.success) + Len(bulkResult.failed) = Len(documentNames)

\* a bulk delete of three names has returned: the first delete failed, the later
\* ones were still made and succeeded
C20_Witness ==
    /\ bulkPc = "returned"
    /\ Len(documentNames) = 3
    /\ FailedNames = <<documentNames[1]>>
    /\ bulkResult.success = <<documentNames[2], documentNames[3]>>


\* the position of the first entry of the metadata with the key, 0 when none has it
FirstWith(key) ==
    IF "customMetadata" \notin DOMAIN doc THEN 0
    ELSE IF \A k \in DOMAIN doc.customMetadata : doc.customMetadata[k].key # key THEN 0
    ELSE CHOOSE k \in DOMAIN doc.customMetadata :
            /\ doc.customMetadata[k].key = key
            /\ \A j \in 1..(k - 1) : doc.customMetadata[j].key # key
ValueOfFirst(key) == doc.customMetadata[FirstWith(key)].stringValue

Components(v) == Parts(v)
\* the first position where the components differ, a missing one counting as
\* zero; 0 when there is none
FirstDifference(a, b) ==
    LET differ == {k \in 1..Max(Len(Components(a)), Len(Components(b))) :
                      PartAt(Components(a), k) # PartAt(Components(b), k)}
    IN  IF differ = {} THEN 0 ELSE CHOOSE k \in differ : \A j \in differ : k <= j

\* C22: compareVersions compares dotted-numeric versions component by component
\* from the left, a missing trailing component counting as zero (so versions that
\* differ only by trailing zero components compare equal), and 'N/A' is below
\* every dotted-numeric version.
C22_ComponentWiseNALowest ==
    docPc = "result" =>
      /\ VersionPattern(v1) /\ VersionPattern(v2) =>
            LET k == FirstDifference(v1, v2)
            IN  /\ k = 0 => compared = 0
                /\ k # 0 /\ PartAt(Components(v1), k) < PartAt(Components(v2), k) => compared < 0
                /\ k # 0 /\ PartAt(Components(v1), k) > PartAt(Components(v2), k) => compared > 0
      /\ v1 = NA /\ VersionPattern(v2) => compared < 0
      /\ VersionPattern(v1) /\ v2 = NA => compared > 0

\* '1.0' has been compared with '1' and found equal
C22_Witness ==
    /\ docPc = "result"
    /\ v1 = <<"1", ".", "0">>
    /\ v2 = <<"1">>
    /\ compared = 0

\* C23 as stated: compareVersions("2.1.0", "2.1") > 0 and
\* compareVersions("N/A", "1.0.0") < 0.
C23_ExamplesAsStated ==
    docPc = "result" =>
      /\ v1 = <<"2", ".", "1", ".", "0">> /\ v2 = <<"2", ".", "1">> => compared > 0
      /\ v1 = NA /\ v2 = <<"1", ".", "0", ".", "0">> => compared < 0

\* C23 amended: compareVersions("2.1.0", "2.1") is 0 and
\* compareVersions("N/A", "1.0.0") is less than 0.
C23_ExamplesAmended ==
    docPc = "result" =>
      /\ v1 = <<"2", ".", "1", ".", "0">> /\ v2 = <<"2", ".", "1">> => compared = 0
      /\ v1 = NA /\ v2 = <<"1", ".", "0", ".", "0">> => compared < 0

\* '2.1.0' has been compared with '2.1'
C23_Witness ==
    /\ docPc = "result"
    /\ v1 = <<"2", ".", "1", ".", "0">>
    /\ v2 = <<"2", ".", "1">>

\* C24: hasNewerVersion(documents, d) is true exactly when a document with the
\* base name of d has a version strictly greater than d's under compareVersions;
\* it is false when d's version is the highest, also with a tie or with only 'N/A'.
C24_NewerExactlyWhenGreaterExists ==
    docPc = "result" =>
      (newer <=>
         \E k \in DOMAIN documents :
            /\ BaseName(documents[k].displayName) = BaseName(documents[currentDoc].displayName)
            /\ CompareVersions(documents[k].version, documents[currentDoc].version) > 0)

\* C29: filterDocuments with sortBy 'version' orders the documents consistently
\* with compareVersions: ascending, no document stands before a document with a
\* strictly smaller version; descending, none stands before a strictly greater one.
C29_SortAgreesWithCompareVersions ==
    docPc = "result" =>
      \A j, k \in DOMAIN filtered :
         j < k =>
           /\ sortOrder = "asc" =>
                 ~(CompareVersions(filtered[k].version, filtered[j].version) < 0)
           /\ sortOrder = "desc" =>
                 ~(CompareVersions(filtered[k].version, filtered[j].version) > 0)

\* C30: for every sample s of [-1, 1], createBlob produces the truncation of
\* s * 32768 with no wraparound, so the sign of every sample that is not zero is
\* kept; the sample 1.0 is not encoded as a negative value.
C30_PcmNoWraparound ==
    pcmPc = "result" =>
      \A k \in DOMAIN data :
         /\ int16[k] = Truncated(data[k])
         /\ data[k] > 0 => int16[k] > 0
         /\ data[k] < 0 => int16[k] < 0

\* C25: once the user has stopped the session, and until handleStartDemo is
\* invoked again, the status stays idle and no capture graph is built (so no
\* audio frame is sent), whatever callback of the stopped attempt arrives.
C25_StoppedStaysStopped ==
    lastEnd = "stop" => liveStatus = "idle" /\ scriptProcessorRef = NoRef

\* C26: the first audio chunk of every session is scheduled to start at the
\* current time of the output clock at its arrival.
C26_FirstChunkStartsNow ==
    \A j \in DOMAIN sources :
       (\A k \in 1..(j - 1) : sources[k].run # sources[j].run)
          => sources[j].start = sources[j].arrived

\* C27: in ChatbotView the active store name is not null whenever the status is
\* Chatting, after every sequence of uploads, failed uploads, messages and ends
\* of chat; every query sent was given a store.
C27_ChattingHasStore ==
    /\ status = "Chatting" => activeRagStoreName # null
    /\ isQueryLoading => queryStore # null

\* a chat is under way: a query has failed, and the next one is pending
C27_Witness ==
    /\ status = "Chatting"
    /\ activeRagStoreName \in StoreNames
    /\ isQueryLoading
    /\ Len(chatHistory) = 3
    /\ Len(handleErrorCalls) = 1
    /\ handleErrorCalls[1].message = "Failed to get response"

\* C28: after handleEndChat the chat history is empty and stays empty until the
\* user sends a message in a new session; the answer or the error message of a
\* query that was pending when the chat was ended is never appended.
C28_HistoryStaysEmptyAfterEnd == chatEnded => chatHistory = <<>>

====
